---- MODULE Spec2Model ----
(***************************************************************************)
(* Model of the archery compute kernels (package archery, sorting.go):     *)
(* SortIndices, Sort, TakeWithIndices, NthElement, Rank and UniqueValues   *)
(* over typed Arrow arrays with a validity bitmap.                         *)
(*                                                                         *)
(* An array is a record [typ, data]; data is a sequence of slots           *)
(* [valid, v].  Positions are 0-based in the program and 1-based in the    *)
(* sequences, so slot i of the program is data[i + 1].                     *)
(* Values: booleans are BOOLEAN, integers are Int, floats are records      *)
(* [nan, x] (x is meaningful only when nan is FALSE), strings are          *)
(* sequences of byte codes.                                                *)
(***************************************************************************)
EXTENDS Integers, Sequences, FiniteSets, TLC

VARIABLES input, order, op, indices, n, res, args, allocated

vars == <<input, order, op, indices, n, res, args, allocated>>

(* ------------------------------ bounds -------------------------------- *)

\* longest enumerated input array (sort.SliceStable is a pure insertion
\* sort for every length below its block size of 20)
MaxLen == 3

\* longest enumerated index array handed to TakeWithIndices
MaxIdxLen == 2

\* significant bits of a float. float64 keeps 53 and rounds every result
\* of +, -, *, / and sqrt to the nearest value it can hold, a tie to the
\* even significand; the model is the same arithmetic in a format with
\* MantissaBits significant bits, a smallest step of 1/Unit and no largest
\* value, so that small inputs reach the rounding cases
MantissaBits == 4

\* the number of smallest steps that make 1.0
Unit == 2 ^ (MantissaBits - 2)

(* --------------------------- type tags -------------------------------- *)

Ascending == 0

Descending == 1

SortOrder == {Ascending, Descending}

SignedTypes == {"INT8", "INT16", "INT32", "INT64"}

UnsignedTypes == {"UINT8", "UINT16", "UINT32", "UINT64"}

FloatTypes == {"FLOAT32", "FLOAT64"}

\* DATE32 stands for every type tag that no kernel has a dispatch arm for
TypeIDs == {"BOOL", "STRING", "DATE32"} \cup SignedTypes \cup UnsignedTypes \cup FloatTypes

\* the dispatch arms of SortIndices
SortTypes == {"BOOL", "STRING"} \cup SignedTypes \cup FloatTypes

\* the dispatch arms of TakeWithIndices (and of NthElement's value switch)
TakeTypes == SortTypes \cup UnsignedTypes

\* the dispatch arms of UniqueValues
UniqueTypes == {"BOOL", "INT64", "FLOAT64"}

(* ----------------------------- values --------------------------------- *)

NaN == [nan |-> TRUE, x |-> 0]

\* the float that is x smallest steps
Steps(x) == [nan |-> FALSE, x |-> x]

\* the float with the integer value x
F(x) == Steps(x * Unit)

Values(t) ==
  IF t = "BOOL" THEN {FALSE, TRUE}
  ELSE IF t = "STRING" THEN {<<1>>, <<1, 2>>, <<2>>}
  ELSE IF t \in FloatTypes THEN {F(-1), F(1), NaN}
  ELSE IF t \in UnsignedTypes THEN {0, 2}
  ELSE {-1, 0, 1}

\* the zero value a builder stores in a null slot
Zero(t) ==
  IF t = "BOOL" THEN FALSE
  ELSE IF t = "STRING" THEN <<>>
  ELSE IF t \in FloatTypes THEN F(0)
  ELSE 0

Val(t, x) == [valid |-> TRUE, v |-> x]

Null(t) == [valid |-> FALSE, v |-> Zero(t)]

Slots(t) == {Val(t, x) : x \in Values(t)} \cup {Null(t)}

SeqsUpTo(S, k) == UNION {[1..m -> S] : m \in 0..k}

\* the arrays of the repository's examples
ExampleArrays(t) ==
  IF t = "INT64"
    THEN {<<Val(t, 5), Val(t, 3), Val(t, 1), Val(t, 4), Val(t, 2)>>,
          <<Val(t, 1), Val(t, 2), Val(t, 2), Val(t, 3), Val(t, 1), Val(t, 4), Val(t, 5), Val(t, 5)>>}
  ELSE IF t = "FLOAT64"
    THEN {<<Val(t, F(5)), Val(t, F(3)), Val(t, F(1)), Val(t, F(4)), Val(t, F(2))>>}
  ELSE {}

Arrays(t) == SeqsUpTo(Slots(t), MaxLen) \cup ExampleArrays(t)

IsNull(data, i) == ~data[i + 1].valid

Value(data, i) == data[i + 1].v

(* ---------------------------- results --------------------------------- *)

\* err = "" is a nil error; isNil is a nil first return value; typ and arr
\* are the type tag and the slots of a returned array, val a returned scalar
Ok(t, arr) == [err |-> "", typ |-> t, arr |-> arr, isNil |-> FALSE, val |-> 0]

OkVal(v) == [err |-> "", typ |-> "", arr |-> <<>>, isNil |-> FALSE, val |-> v]

OkNil == [err |-> "", typ |-> "", arr |-> <<>>, isNil |-> TRUE, val |-> 0]

Err(e) == [err |-> e, typ |-> "", arr |-> <<>>, isNil |-> TRUE, val |-> 0]

(* --------------------------- comparisons ------------------------------ *)

\* Go's < on strings: bytewise lexicographic, a proper prefix is smaller
RECURSIVE StrLess(_, _)
StrLess(a, b) ==
  IF b = <<>> THEN FALSE
  ELSE IF a = <<>> THEN TRUE
  ELSE IF Head(a) < Head(b) THEN TRUE
  ELSE IF Head(a) > Head(b) THEN FALSE
  ELSE StrLess(Tail(a), Tail(b))

\* LessThan with <= in place of <
LessThan_orEqual(t, a, b) ==
  IF t = "STRING" THEN StrLess(a, b) \/ a = b
  ELSE IF t \in FloatTypes THEN ~a.nan /\ ~b.nan /\ a.x <= b.x
  ELSE a <= b

\* Go's < on the value type of an array of type t; on floats every
\* comparison with a NaN operand is false (a > b is evaluated as b < a)
LessThan(t, a, b) ==
  IF t = "STRING" THEN StrLess(a, b)
  ELSE IF t \in FloatTypes THEN ~a.nan /\ ~b.nan /\ a.x < b.x
  ELSE a < b

\* less without the null check on the second operand
less_noSecondNullCheck(t, data, ord, x, y) ==
  IF IsNull(data, x) THEN TRUE
  ELSE IF t = "BOOL"
    THEN IF ord = Ascending
           THEN ~Value(data, x) /\ Value(data, y)
           ELSE Value(data, x) /\ ~Value(data, y)
  ELSE IF ord = Ascending
    THEN LessThan(t, Value(data, x), Value(data, y))
    ELSE LessThan(t, Value(data, y), Value(data, x))

\* the less closure SortIndices hands to sort.SliceStable; x and y are the
\* index values indices[i] and indices[j]
less(t, data, ord, x, y) ==
  IF IsNull(data, x) THEN TRUE
  ELSE IF IsNull(data, y) THEN FALSE
  ELSE IF t = "BOOL"
    THEN IF ord = Ascending
           THEN ~Value(data, x) /\ Value(data, y)
           ELSE Value(data, x) /\ ~Value(data, y)
  ELSE IF ord = Ascending
    THEN LessThan(t, Value(data, x), Value(data, y))
    ELSE LessThan(t, Value(data, y), Value(data, x))

\* a swap that overwrites one side only
Swap_overwrite(s, i, j) == [s EXCEPT ![i] = s[j]]

Swap(s, i, j) == [s EXCEPT ![i] = s[j], ![j] = s[i]]

\* inner loop of the insertion sort:
\*   for j := i; j > a && less(j, j-1); j-- { swap(j, j-1) }
RECURSIVE insertLoop(_, _, _, _, _)
insertLoop(t, data, ord, idx, j) ==
  IF j > 1 /\ less(t, data, ord, idx[j], idx[j - 1])
    THEN insertLoop(t, data, ord, Swap(idx, j, j - 1), j - 1)
    ELSE idx

\* outer loop of the insertion sort: for i := a + 1; i < b; i++
RECURSIVE insertionSort(_, _, _, _, _)
insertionSort(t, data, ord, idx, i) ==
  IF i > Len(idx) THEN idx
  ELSE insertionSort(t, data, ord, insertLoop(t, data, ord, idx, i), i + 1)

\* sort.SliceStable(indices, less) for fewer than 20 elements: one
\* insertion sort over the whole slice, no merge pass
SliceStable(t, data, ord, idx) == insertionSort(t, data, ord, idx, 2)

(* ----------------------------- kernels -------------------------------- *)

\* indices[i] = int64(i)
InitIndices(length) == [i \in 1..length |-> i - 1]

SortIndices(arr, ord) ==
  IF arr.typ \in SortTypes
    THEN Ok("INT64", SliceStable(arr.typ, arr.data, ord, InitIndices(Len(arr.data))))
    ELSE Err("not implemented")

\* takeLoop that skips a null source slot without AppendNull
RECURSIVE takeLoop_dropNull(_, _, _, _)
takeLoop_dropNull(arr, idx, i, out) ==
  IF i > Len(idx) THEN Ok(arr.typ, out)
  ELSE IF idx[i] < 0 \/ idx[i] >= Len(arr.data) THEN Err("index out of bounds")
  ELSE IF IsNull(arr.data, idx[i])
    THEN takeLoop_dropNull(arr, idx, i + 1, out)
    ELSE takeLoop_dropNull(arr, idx, i + 1, Append(out, Val(arr.typ, Value(arr.data, idx[i]))))

\* takeLoop that skips an out-of-bounds index instead of failing
RECURSIVE takeLoop_skipBad(_, _, _, _)
takeLoop_skipBad(arr, idx, i, out) ==
  IF i > Len(idx) THEN Ok(arr.typ, out)
  ELSE IF idx[i] < 0 \/ idx[i] >= Len(arr.data) THEN takeLoop_skipBad(arr, idx, i + 1, out)
  ELSE IF IsNull(arr.data, idx[i])
    THEN takeLoop_skipBad(arr, idx, i + 1, Append(out, Null(arr.typ)))
    ELSE takeLoop_skipBad(arr, idx, i + 1, Append(out, Val(arr.typ, Value(arr.data, idx[i]))))

\* the loop of TakeWithIndices over the index array; out is the builder
RECURSIVE takeLoop(_, _, _, _)
takeLoop(arr, idx, i, out) ==
  IF i > Len(idx) THEN Ok(arr.typ, out)
  ELSE IF idx[i] < 0 \/ idx[i] >= Len(arr.data) THEN Err("index out of bounds")
  ELSE IF IsNull(arr.data, idx[i])
    THEN takeLoop(arr, idx, i + 1, Append(out, Null(arr.typ)))
    ELSE takeLoop(arr, idx, i + 1, Append(out, Val(arr.typ, Value(arr.data, idx[i]))))

\* ind is the index array: [typ, data] with data the raw int64 slots
\* (Value(i) is read whatever the validity bit says)
TakeWithIndices(arr, ind) ==
  IF ind.typ # "INT64" THEN Err("indices must be an Int64Array")
  ELSE IF arr.typ \notin TakeTypes THEN Err("not implemented")
  ELSE takeLoop(arr, ind.data, 1, <<>>)

Sort(arr, ord) ==
  LET r == SortIndices(arr, ord)
  IN IF r.err # "" THEN Err(r.err)
     ELSE TakeWithIndices(arr, [typ |-> "INT64", data |-> r.arr])

\* NthElement with the range check after the sort
NthElement_lateRangeCheck(arr, k, ord) ==
  LET r == SortIndices(arr, ord)
  IN IF r.err # "" THEN Err(r.err)
     ELSE IF k < 0 \/ k >= Len(arr.data) THEN Err("index out of range")
     ELSE LET nthIndex == r.arr[k + 1]
          IN IF IsNull(arr.data, nthIndex) THEN OkNil
             ELSE IF arr.typ \in TakeTypes THEN OkVal(Value(arr.data, nthIndex))
             ELSE Err("unsupported array type")

\* NthElement that reads slot n of the input instead of slot indices[n]
NthElement_unsorted(arr, k, ord) ==
  IF k < 0 \/ k >= Len(arr.data) THEN Err("index out of range")
  ELSE LET r == SortIndices(arr, ord)
       IN IF r.err # "" THEN Err(r.err)
          ELSE IF IsNull(arr.data, k) THEN OkNil
          ELSE IF arr.typ \in TakeTypes THEN OkVal(Value(arr.data, k))
          ELSE Err("unsupported array type")

NthElement(arr, k, ord) ==
  IF k < 0 \/ k >= Len(arr.data) THEN Err("index out of range")
  ELSE LET r == SortIndices(arr, ord)
       IN IF r.err # "" THEN Err(r.err)
          ELSE LET nthIndex == r.arr[k + 1]
               IN IF IsNull(arr.data, nthIndex) THEN OkNil
                  ELSE IF arr.typ \in TakeTypes THEN OkVal(Value(arr.data, nthIndex))
                  ELSE Err("unsupported array type")

\* for i := 0; i < length; i++ { ranks[indicesArr.Value(i)] = int64(i) }
RECURSIVE rankLoop(_, _, _)
rankLoop(idx, i, ranks) ==
  IF i > Len(idx) THEN ranks
  ELSE rankLoop(idx, i + 1, [ranks EXCEPT ![idx[i] + 1] = i - 1])

Rank(arr, ord) ==
  LET r == SortIndices(arr, ord)
  IN IF r.err # "" THEN Err(r.err)
     ELSE Ok("INT64", rankLoop(r.arr, 1, [i \in 1..Len(arr.data) |-> 0]))

(* ---------------------------- UniqueValues ---------------------------- *)

\* == on map keys: a NaN key is equal to no key, itself included
KeyEq(t, a, b) ==
  IF t \in FloatTypes THEN ~a.nan /\ ~b.nan /\ a.x = b.x
  ELSE a = b

\* uniqueMap[v] = true: a new entry unless an equal key is present
mapInsert(t, keys, v) ==
  IF \E k \in 1..Len(keys) : KeyEq(t, keys[k], v) THEN keys ELSE Append(keys, v)

\* the first loop of the INT64 and FLOAT64 arms: the keys of uniqueMap
RECURSIVE mapKeys(_, _, _, _)
mapKeys(t, data, i, keys) ==
  IF i > Len(data) THEN keys
  ELSE IF ~data[i].valid THEN mapKeys(t, data, i + 1, keys)
  ELSE mapKeys(t, data, i + 1, mapInsert(t, keys, data[i].v))

\* the comparison of the final sort: < for sort.Slice over int64,
\* and for sort.Float64s  x < y || (isNaN(x) && !isNaN(y))
sortLess(t, a, b) ==
  IF t \in FloatTypes THEN LessThan(t, a, b) \/ (a.nan /\ ~b.nan)
  ELSE a < b

RECURSIVE insertLoopVals(_, _, _)
insertLoopVals(t, s, j) ==
  IF j > 1 /\ sortLess(t, s[j], s[j - 1])
    THEN insertLoopVals(t, Swap(s, j, j - 1), j - 1)
    ELSE s

\* sort.Slice and sort.Float64s on at most 12 elements: an insertion sort
RECURSIVE sortVals(_, _, _)
sortVals(t, s, i) ==
  IF i > Len(s) THEN s
  ELSE sortVals(t, insertLoopVals(t, s, i), i + 1)

Perms(k) == {p \in [1..k -> 1..k] : \A i, j \in 1..k : p[i] = p[j] => i = j}

HasNull(data) == \E i \in 1..Len(data) : ~data[i].valid

HasValue(data, x) == \E i \in 1..Len(data) : data[i].valid /\ data[i].v = x

\* AppendValues that starts at the second value
AppendValues_skipFirst(t, out, vals) ==
  out \o [i \in 1..(Len(vals) - 1) |-> Val(t, vals[i + 1])]

\* builder.AppendValues(vals, nil)
AppendValues(t, out, vals) == out \o [i \in 1..Len(vals) |-> Val(t, vals[i])]

\* p is the order in which `for val := range uniqueMap` visits the keys
UniqueValues(arr, p) ==
  LET t == arr.typ
      nullPart == IF HasNull(arr.data) THEN <<Null(t)>> ELSE <<>>
  IN IF t = "BOOL"
       THEN Ok(t, nullPart
               \o (IF HasValue(arr.data, FALSE) THEN <<Val(t, FALSE)>> ELSE <<>>)
               \o (IF HasValue(arr.data, TRUE) THEN <<Val(t, TRUE)>> ELSE <<>>))
     ELSE IF t \in {"INT64", "FLOAT64"}
       THEN LET keys == mapKeys(t, arr.data, 1, <<>>)
                uniqueValues == [i \in 1..Len(keys) |-> keys[p[i]]]
            IN Ok(t, AppendValues(t, nullPart, sortVals(t, uniqueValues, 2)))
     ELSE Err("not implemented")

\* the iteration orders the map of UniqueValues can take on arr
RangeOrders(arr) ==
  IF arr.typ \in {"INT64", "FLOAT64"}
    THEN Perms(Len(mapKeys(arr.typ, arr.data, 1, <<>>)))
    ELSE {<<>>}

(* -------------------------- float arithmetic -------------------------- *)

Abs(x) == IF x < 0 THEN -x ELSE x

\* the spacing of the representable values around a/d: the smallest power
\* of two s with a/d < 2^MantissaBits * s
RECURSIVE ulp(_, _, _)
ulp(a, d, s) == IF a < (2 ^ MantissaBits) * d * s THEN s ELSE ulp(a, d, 2 * s)

\* a/b rounded to the nearest integer, a tie to the even one
roundHalfEven(a, b) ==
  LET k == a \div b
      r == a % b
  IN IF 2 * r < b THEN k
     ELSE IF 2 * r > b THEN k + 1
     ELSE IF k % 2 = 0 THEN k ELSE k + 1

\* the representable value nearest to n/d (d > 0)
Round(num, d) ==
  LET a == Abs(num)
      s == ulp(a, d, 1)
      m == s * roundHalfEven(a, d * s)
  IN IF num < 0 THEN -m ELSE m

Representable(x) == Round(x, 1) = x

\* float64(v) of an integer
ToFloat(i) == Steps(Round(i * Unit, 1))

FAdd(a, b) == IF a.nan \/ b.nan THEN NaN ELSE Steps(Round(a.x + b.x, 1))

FSub(a, b) == IF a.nan \/ b.nan THEN NaN ELSE Steps(Round(a.x - b.x, 1))

FMul(a, b) == IF a.nan \/ b.nan THEN NaN ELSE Steps(Round(a.x * b.x, Unit))

\* every divisor in the program is a positive count
FDiv(a, b) ==
  IF a.nan \/ b.nan \/ b.x = 0 THEN NaN
  ELSE IF b.x < 0 THEN Steps(Round(-(a.x * Unit), -b.x))
  ELSE Steps(Round(a.x * Unit, b.x))

\* is a at least as near to the square root of v as b is, all three in
\* steps (a, b, v >= 0): the root of v steps is the root of v * Unit, in steps
Closer(a, b, v) ==
  IF a = b THEN TRUE
  ELSE IF a < b THEN 4 * v * Unit <= (a + b) * (a + b)
  ELSE 4 * v * Unit >= (a + b) * (a + b)

\* math.Sqrt: NaN for NaN and for a negative argument, else the
\* representable value nearest to the root (of two equally near, the one
\* with the even significand)
FSqrt(a) ==
  IF a.nan \/ a.x < 0 THEN NaN
  ELSE LET reps == {r \in 0..(a.x + Unit) : Representable(r)}
           best == {r \in reps : \A q \in reps : Closer(r, q, a.x)}
       IN Steps(CHOOSE r \in best :
              \A q \in best : q = r \/ (r \div ulp(r, 1, 1)) % 2 = 0)

(* ----------------------------- CountValues ---------------------------- *)

\* a values array and its parallel Int64 counts array (carried in val)
OkPair(t, values, counts) ==
  [err |-> "", typ |-> t, arr |-> values, isNil |-> FALSE, val |-> counts]

\* countMap[v]++ : the entry with an equal key is incremented, and a key
\* equal to none (a new value, or any NaN) starts a new entry at 1
mapIncrement(t, m, v) ==
  IF \E k \in 1..Len(m) : KeyEq(t, m[k].key, v)
    THEN [k \in 1..Len(m) |->
           IF KeyEq(t, m[k].key, v) THEN [key |-> m[k].key, cnt |-> m[k].cnt + 1]
           ELSE m[k]]
    ELSE Append(m, [key |-> v, cnt |-> 1])

\* the counting loop of the INT64 and FLOAT64 arms
RECURSIVE countLoop(_, _, _, _)
countLoop(t, data, i, m) ==
  IF i > Len(data) THEN m
  ELSE IF ~data[i].valid THEN countLoop(t, data, i + 1, m)
  ELSE countLoop(t, data, i + 1, mapIncrement(t, m, data[i].v))

\* countMap[val]: the count of the equal key, 0 when no key is equal
mapLookup(t, m, v) ==
  IF \E k \in 1..Len(m) : KeyEq(t, m[k].key, v)
    THEN (CHOOSE e \in {m[k] : k \in 1..Len(m)} : KeyEq(t, e.key, v)).cnt
    ELSE 0

\* input.NullN()
NullN(data) == Cardinality({i \in 1..Len(data) : ~data[i].valid})

CountOf(data, x) == Cardinality({i \in 1..Len(data) : data[i].valid /\ data[i].v = x})

Int64Slot(c) == [valid |-> TRUE, v |-> c]

\* p is the order in which `for val := range countMap` visits the keys
CountValues(arr, p) ==
  LET t == arr.typ
      nullCount == NullN(arr.data)
      nullVal == IF nullCount > 0 THEN <<Null(t)>> ELSE <<>>
      nullCnt == IF nullCount > 0 THEN <<Int64Slot(nullCount)>> ELSE <<>>
  IN IF t = "BOOL"
       THEN LET falseCount == CountOf(arr.data, FALSE)
                trueCount == CountOf(arr.data, TRUE)
            IN OkPair(t,
                 nullVal \o (IF falseCount > 0 THEN <<Val(t, FALSE)>> ELSE <<>>)
                         \o (IF trueCount > 0 THEN <<Val(t, TRUE)>> ELSE <<>>),
                 nullCnt \o (IF falseCount > 0 THEN <<Int64Slot(falseCount)>> ELSE <<>>)
                         \o (IF trueCount > 0 THEN <<Int64Slot(trueCount)>> ELSE <<>>))
     ELSE IF t \in {"INT64", "FLOAT64"}
       THEN LET countMap == countLoop(t, arr.data, 1, <<>>)
                uniqueValues == sortVals(t, [i \in 1..Len(countMap) |-> countMap[p[i]].key], 2)
            IN OkPair(t,
                 nullVal \o [i \in 1..Len(uniqueValues) |-> Val(t, uniqueValues[i])],
                 nullCnt \o [i \in 1..Len(uniqueValues) |->
                              Int64Slot(mapLookup(t, countMap, uniqueValues[i]))])
     ELSE Err("value_counts not implemented")

\* the iteration orders the map of CountValues can take on arr
CountOrders(arr) ==
  IF arr.typ \in {"INT64", "FLOAT64"}
    THEN Perms(Len(countLoop(arr.typ, arr.data, 1, <<>>)))
    ELSE {<<>>}

(* ----------------------------- aggregation ---------------------------- *)

\* a scalar result; typ names the Go type inside the interface{} (or the
\* declared result type)
OkScalar(kind, v) == [err |-> "", typ |-> kind, arr |-> <<>>, isNil |-> FALSE, val |-> v]

\* a failure of a function whose first result is not an interface{}
ErrScalar(kind, z, e) == [err |-> e, typ |-> kind, arr |-> <<>>, isNil |-> FALSE, val |-> z]

\* the dispatch arms of Sum and of Mean
SumTypes == {"BOOL"} \cup SignedTypes \cup UnsignedTypes \cup FloatTypes

\* the dispatch arms of Min and of Max
MinMaxTypes == {"BOOL", "FLOAT64"} \cup SignedTypes

\* the dispatch arms of Variance
VarianceTypes == SignedTypes \cup FloatTypes

\* the accumulator type of Sum
SumKind(t) ==
  IF t \in FloatTypes THEN "float64"
  ELSE IF t \in UnsignedTypes THEN "uint64"
  ELSE "int64"

\* sum++ / sum += v
sumStep(t, sum, v) ==
  IF t = "BOOL" THEN (IF v THEN sum + 1 ELSE sum)
  ELSE IF t \in FloatTypes THEN FAdd(sum, v)
  ELSE sum + v

\* the loop of Sum without its IsNull test
RECURSIVE sumLoop_addNull(_, _, _, _)
sumLoop_addNull(t, data, i, sum) ==
  IF i > Len(data) THEN sum
  ELSE sumLoop_addNull(t, data, i + 1, sumStep(t, sum, data[i].v))

\* the loop of every arm of Sum
RECURSIVE sumLoop(_, _, _, _)
sumLoop(t, data, i, sum) ==
  IF i > Len(data) THEN sum
  ELSE IF ~data[i].valid THEN sumLoop(t, data, i + 1, sum)
  ELSE sumLoop(t, data, i + 1, sumStep(t, sum, data[i].v))

Sum(arr) ==
  LET t == arr.typ
  IN IF t \in SumTypes
       THEN OkScalar(SumKind(t),
                     sumLoop(t, arr.data, 1, IF t \in FloatTypes THEN F(0) ELSE 0))
       ELSE Err("sum not implemented")

\* Mean that divides by input.Len()
Mean_divideByLen(arr) ==
  LET t == arr.typ
      sum == Sum(arr)
      count == ToFloat(Len(arr.data))
  IN IF Len(arr.data) = 0 \/ Len(arr.data) = NullN(arr.data)
       THEN OkScalar("float64", F(0))
     ELSE IF t \in SumTypes
       THEN IF sum.typ = "float64"
              THEN OkScalar("float64", FDiv(sum.val, count))
              ELSE OkScalar("float64", FDiv(ToFloat(sum.val), count))
     ELSE ErrScalar("float64", F(0), "mean not implemented")

Mean(arr) ==
  LET t == arr.typ
      sum == Sum(arr)
      count == ToFloat(Len(arr.data) - NullN(arr.data))
  IN IF Len(arr.data) = 0 \/ Len(arr.data) = NullN(arr.data)
       THEN OkScalar("float64", F(0))
     ELSE IF t \in SumTypes
       THEN IF sum.typ = "float64"
              THEN OkScalar("float64", FDiv(sum.val, count))
              ELSE OkScalar("float64", FDiv(ToFloat(sum.val), count))
     ELSE ErrScalar("float64", F(0), "mean not implemented")

\* input.Len() - input.NullN()
Count(arr) == OkScalar("int64", Len(arr.data) - NullN(arr.data))

CountNull(arr) == OkScalar("int64", NullN(arr.data))

RECURSIVE anyLoop(_, _)
anyLoop(data, i) ==
  IF i > Len(data) THEN FALSE
  ELSE IF data[i].valid /\ data[i].v THEN TRUE
  ELSE anyLoop(data, i + 1)

\* Any (the name Any is taken by the TLC module)
AnyBool(arr) ==
  IF arr.typ # "BOOL"
    THEN ErrScalar("bool", FALSE, "any operation only supported on boolean arrays")
    ELSE OkScalar("bool", anyLoop(arr.data, 1))

\* the loop of All with a null slot read as its raw value
RECURSIVE allLoop_readNull(_, _)
allLoop_readNull(data, i) ==
  IF i > Len(data) THEN TRUE
  ELSE IF ~data[i].v THEN FALSE
  ELSE allLoop_readNull(data, i + 1)

RECURSIVE allLoop(_, _)
allLoop(data, i) ==
  IF i > Len(data) THEN TRUE
  ELSE IF data[i].valid /\ ~data[i].v THEN FALSE
  ELSE allLoop(data, i + 1)

All(arr) ==
  IF arr.typ # "BOOL"
    THEN ErrScalar("bool", FALSE, "all operation only supported on boolean arrays")
    ELSE OkScalar("bool", allLoop(arr.data, 1))

\* the value `found` stops at: the first non-null slot's
firstNonNull(data) ==
  data[CHOOSE i \in 1..Len(data) :
         data[i].valid /\ \A j \in 1..(i - 1) : ~data[j].valid].v

RECURSIVE minLoop(_, _, _, _)
minLoop(t, data, i, cur) ==
  IF i > Len(data) THEN cur
  ELSE IF data[i].valid /\ LessThan(t, data[i].v, cur)
    THEN minLoop(t, data, i + 1, data[i].v)
    ELSE minLoop(t, data, i + 1, cur)

\* Min with the type switch ahead of the empty / all-null return
Min_typeFirst(arr) ==
  LET t == arr.typ
      data == arr.data
  IN IF t \notin MinMaxTypes THEN Err("min not implemented")
     ELSE IF Len(data) = 0 \/ Len(data) = NullN(data) THEN OkNil
     ELSE IF t = "BOOL"
       THEN IF ~firstNonNull(data) THEN OkScalar(t, FALSE)
            ELSE OkScalar(t, ~\E i \in 1..Len(data) : data[i].valid /\ ~data[i].v)
     ELSE OkScalar(t, minLoop(t, data, 1, firstNonNull(data)))

Min(arr) ==
  LET t == arr.typ
      data == arr.data
  IN IF Len(data) = 0 \/ Len(data) = NullN(data) THEN OkNil
     ELSE IF t = "BOOL"
       THEN IF ~firstNonNull(data) THEN OkScalar(t, FALSE)
            ELSE OkScalar(t, ~\E i \in 1..Len(data) : data[i].valid /\ ~data[i].v)
     ELSE IF t \in MinMaxTypes
       THEN OkScalar(t, minLoop(t, data, 1, firstNonNull(data)))
     ELSE Err("min not implemented")

RECURSIVE maxLoop(_, _, _, _)
maxLoop(t, data, i, cur) ==
  IF i > Len(data) THEN cur
  ELSE IF data[i].valid /\ LessThan(t, cur, data[i].v)
    THEN maxLoop(t, data, i + 1, data[i].v)
    ELSE maxLoop(t, data, i + 1, cur)

Max(arr) ==
  LET t == arr.typ
      data == arr.data
  IN IF Len(data) = 0 \/ Len(data) = NullN(data) THEN OkNil
     ELSE IF t = "BOOL"
       THEN IF firstNonNull(data) THEN OkScalar(t, TRUE)
            ELSE OkScalar(t, \E i \in 1..Len(data) : data[i].valid /\ data[i].v)
     ELSE IF t \in MinMaxTypes
       THEN OkScalar(t, maxLoop(t, data, 1, firstNonNull(data)))
     ELSE Err("max not implemented")

\* for val, count := range counts, visited in the order p
RECURSIVE modeLoop(_, _, _, _, _)
modeLoop(counts, p, i, mode, maxCount) ==
  IF i > Len(counts) THEN mode
  ELSE IF counts[p[i]].cnt > maxCount
    THEN modeLoop(counts, p, i + 1, counts[p[i]].key, counts[p[i]].cnt)
    ELSE modeLoop(counts, p, i + 1, mode, maxCount)

Mode(arr, p) ==
  LET t == arr.typ
      data == arr.data
  IN IF Len(data) = 0 \/ Len(data) = NullN(data) THEN OkNil
     ELSE IF t = "BOOL"
       THEN OkScalar(t, CountOf(data, TRUE) > CountOf(data, FALSE))
     ELSE IF t \in {"INT64", "FLOAT64"}
       THEN OkScalar(t, modeLoop(countLoop(t, data, 1, <<>>), p, 1, Zero(t), 0))
     ELSE Err("mode not implemented")

\* the second pass of Variance: sumSquaredDiff
RECURSIVE varianceLoop(_, _, _, _, _)
varianceLoop(t, data, i, mean, sumSquaredDiff) ==
  IF i > Len(data) THEN sumSquaredDiff
  ELSE IF ~data[i].valid THEN varianceLoop(t, data, i + 1, mean, sumSquaredDiff)
  ELSE LET x == IF t \in FloatTypes THEN data[i].v ELSE ToFloat(data[i].v)
           diff == FSub(x, mean)
       IN varianceLoop(t, data, i + 1, mean, FAdd(sumSquaredDiff, FMul(diff, diff)))

\* Variance with Bessel's correction: the divisor count - 1
Variance_sample(arr) ==
  LET t == arr.typ
      data == arr.data
      mean == Mean(arr)
      count == Len(data) - NullN(data)
  IN IF Len(data) = 0 \/ Len(data) = NullN(data) THEN OkScalar("float64", F(0))
     ELSE IF mean.err # "" THEN ErrScalar("float64", F(0), mean.err)
     ELSE IF t \notin VarianceTypes
       THEN ErrScalar("float64", F(0), "variance not implemented")
     ELSE IF count <= 1 THEN OkScalar("float64", F(0))
     ELSE OkScalar("float64",
                   FDiv(varianceLoop(t, data, 1, mean.val, F(0)), ToFloat(count - 1)))

Variance(arr) ==
  LET t == arr.typ
      data == arr.data
      mean == Mean(arr)
      count == Len(data) - NullN(data)
  IN IF Len(data) = 0 \/ Len(data) = NullN(data) THEN OkScalar("float64", F(0))
     ELSE IF mean.err # "" THEN ErrScalar("float64", F(0), mean.err)
     ELSE IF t \notin VarianceTypes
       THEN ErrScalar("float64", F(0), "variance not implemented")
     ELSE IF count <= 1 THEN OkScalar("float64", F(0))
     ELSE OkScalar("float64",
                   FDiv(varianceLoop(t, data, 1, mean.val, F(0)), ToFloat(count)))

StandardDeviation(arr) ==
  LET variance == Variance(arr)
  IN IF variance.err # "" THEN ErrScalar("float64", F(0), variance.err)
     ELSE OkScalar("float64", FSqrt(variance.val))

(* --------------------------- state machine ---------------------------- *)

NoIndices == [typ |-> "INT64", data |-> <<>>]

\* index arrays handed to TakeWithIndices on a source of the given length;
\* INT32 stands for an index array that is not an *array.Int64
IndexArrays(length) ==
  {[typ |-> "INT64", data |-> d] : d \in SeqsUpTo(-1..length, MaxIdxLen)}
    \cup {[typ |-> "INT32", data |-> d] : d \in SeqsUpTo({0}, 1)}

\* the array kernels take no record-level arguments and the model does not
\* follow the reference counts of their arrays
NoArgs == [sortCols |-> <<>>, sortOrders |-> <<>>,
           keyColumns |-> <<>>, aggregations |-> <<>>]

NoAllocation == [indices |-> 0, cols |-> <<>>]

Init ==
  /\ \E t \in TypeIDs : \E d \in Arrays(t) : input = [typ |-> t, data |-> d]
  /\ order \in SortOrder
  /\ op = "none"
  /\ indices = NoIndices
  /\ n = 0
  /\ res = OkNil
  /\ args = NoArgs
  /\ allocated = NoAllocation

DoSortIndices ==
  /\ op = "none"
  /\ op' = "SortIndices"
  /\ res' = SortIndices(input, order)
  /\ indices' = NoIndices
  /\ n' = 0
  /\ UNCHANGED <<input, order, args, allocated>>

DoSort ==
  /\ op = "none"
  /\ op' = "Sort"
  /\ res' = Sort(input, order)
  /\ indices' = NoIndices
  /\ n' = 0
  /\ UNCHANGED <<input, order, args, allocated>>

DoTakeWithIndices ==
  /\ op = "none"
  /\ \E ind \in IndexArrays(Len(input.data)) :
       /\ op' = "TakeWithIndices"
       /\ indices' = ind
       /\ res' = TakeWithIndices(input, ind)
       /\ n' = 0
       /\ UNCHANGED <<input, order, args, allocated>>

DoNthElement ==
  /\ op = "none"
  /\ \E k \in -1..(Len(input.data) + 1) :
       /\ op' = "NthElement"
       /\ n' = k
       /\ res' = NthElement(input, k, order)
       /\ indices' = NoIndices
       /\ UNCHANGED <<input, order, args, allocated>>

DoRank ==
  /\ op = "none"
  /\ op' = "Rank"
  /\ res' = Rank(input, order)
  /\ indices' = NoIndices
  /\ n' = 0
  /\ UNCHANGED <<input, order, args, allocated>>

DoUniqueValues ==
  /\ op = "none"
  /\ \E p \in RangeOrders(input) :
       /\ op' = "UniqueValues"
       /\ res' = UniqueValues(input, p)
       /\ indices' = NoIndices
       /\ n' = 0
       /\ UNCHANGED <<input, order, args, allocated>>

\* the caller drops the result (ReleaseArray) and may call another kernel
\* on the same input
DoReleaseArray ==
  /\ op # "none"
  /\ op' = "none"
  /\ res' = OkNil
  /\ indices' = NoIndices
  /\ n' = 0
  /\ UNCHANGED <<input, order, args, allocated>>

\* the sort kernel and the distinct kernel
Next ==
  \/ DoSortIndices
  \/ DoSort
  \/ DoNthElement
  \/ DoRank
  \/ DoUniqueValues
  \/ DoReleaseArray

Spec == Init /\ [][Next]_vars

\* the gather kernel called directly; it takes no sort order
InitTake == Init /\ order = Ascending

NextTake ==
  \/ DoTakeWithIndices
  \/ DoReleaseArray

TakeSpec == InitTake /\ [][NextTake]_vars

(* ----------------------- the aggregation kernels ---------------------- *)

\* a number of steps near the top of the significand range: adding a float
\* of that many steps to itself three times needs rounding
NearTop == (2 ^ (MantissaBits + 1)) - 4

AggValues(t) ==
  IF t \in FloatTypes THEN {F(-1), F(1), Steps(NearTop), NaN}
  ELSE Values(t)

\* the raw values a null slot can hold: the builder's zero, or whatever
\* AppendValues was given at a position its validity slice masks
RawValues(t) ==
  IF t = "BOOL" THEN {FALSE, TRUE}
  ELSE IF t = "STRING" THEN {<<>>, <<1>>}
  ELSE IF t \in FloatTypes THEN {F(0), F(1)}
  ELSE IF t \in UnsignedTypes THEN {0, 2}
  ELSE {0, 1}

AggSlots(t) ==
  {Val(t, x) : x \in AggValues(t)} \cup {[valid |-> FALSE, v |-> r] : r \in RawValues(t)}

\* the arrays of Example_sum .. Example_variance and of Example_count
AggExamples(t) ==
  IF t = "FLOAT64"
    THEN {<<Val(t, F(1)), Val(t, F(2)), Val(t, F(3)), Val(t, F(4)), Val(t, F(5))>>,
          <<Val(t, F(1)), Val(t, F(2)), [valid |-> FALSE, v |-> F(3)],
            Val(t, F(4)), Val(t, F(5))>>}
  ELSE {}

AggArrays(t) == SeqsUpTo(AggSlots(t), MaxLen) \cup ExampleArrays(t) \cup AggExamples(t)

InitAgg ==
  /\ \E t \in TypeIDs : \E d \in AggArrays(t) : input = [typ |-> t, data |-> d]
  /\ order = Ascending
  /\ op = "none"
  /\ indices = NoIndices
  /\ n = 0
  /\ res = OkNil
  /\ args = NoArgs
  /\ allocated = NoAllocation

DoSum ==
  /\ op = "none"
  /\ op' = "Sum"
  /\ res' = Sum(input)
  /\ indices' = NoIndices
  /\ n' = 0
  /\ UNCHANGED <<input, order, args, allocated>>

DoMean ==
  /\ op = "none"
  /\ op' = "Mean"
  /\ res' = Mean(input)
  /\ indices' = NoIndices
  /\ n' = 0
  /\ UNCHANGED <<input, order, args, allocated>>

DoMin ==
  /\ op = "none"
  /\ op' = "Min"
  /\ res' = Min(input)
  /\ indices' = NoIndices
  /\ n' = 0
  /\ UNCHANGED <<input, order, args, allocated>>

DoMax ==
  /\ op = "none"
  /\ op' = "Max"
  /\ res' = Max(input)
  /\ indices' = NoIndices
  /\ n' = 0
  /\ UNCHANGED <<input, order, args, allocated>>

DoVariance ==
  /\ op = "none"
  /\ op' = "Variance"
  /\ res' = Variance(input)
  /\ indices' = NoIndices
  /\ n' = 0
  /\ UNCHANGED <<input, order, args, allocated>>

DoStandardDeviation ==
  /\ op = "none"
  /\ op' = "StandardDeviation"
  /\ res' = StandardDeviation(input)
  /\ indices' = NoIndices
  /\ n' = 0
  /\ UNCHANGED <<input, order, args, allocated>>

DoCount ==
  /\ op = "none"
  /\ op' = "Count"
  /\ res' = Count(input)
  /\ indices' = NoIndices
  /\ n' = 0
  /\ UNCHANGED <<input, order, args, allocated>>

DoCountNull ==
  /\ op = "none"
  /\ op' = "CountNull"
  /\ res' = CountNull(input)
  /\ indices' = NoIndices
  /\ n' = 0
  /\ UNCHANGED <<input, order, args, allocated>>

DoAny ==
  /\ op = "none"
  /\ op' = "Any"
  /\ res' = AnyBool(input)
  /\ indices' = NoIndices
  /\ n' = 0
  /\ UNCHANGED <<input, order, args, allocated>>

DoAll ==
  /\ op = "none"
  /\ op' = "All"
  /\ res' = All(input)
  /\ indices' = NoIndices
  /\ n' = 0
  /\ UNCHANGED <<input, order, args, allocated>>

DoMode ==
  /\ op = "none"
  /\ \E p \in CountOrders(input) :
       /\ op' = "Mode"
       /\ res' = Mode(input, p)
       /\ indices' = NoIndices
       /\ n' = 0
       /\ UNCHANGED <<input, order, args, allocated>>

DoCountValues ==
  /\ op = "none"
  /\ \E p \in CountOrders(input) :
       /\ op' = "CountValues"
       /\ res' = CountValues(input, p)
       /\ indices' = NoIndices
       /\ n' = 0
       /\ UNCHANGED <<input, order, args, allocated>>

NextAgg ==
  \/ DoSum
  \/ DoMean
  \/ DoMin
  \/ DoMax
  \/ DoMode
  \/ DoVariance
  \/ DoStandardDeviation
  \/ DoCount
  \/ DoCountNull
  \/ DoAny
  \/ DoAll
  \/ DoCountValues
  \/ DoReleaseArray

AggSpec == InitAgg /\ [][NextAgg]_vars

(* ------------------------- properties: helpers ------------------------ *)

\* position (1-based) of index value k in the index sequence s
PosOf(s, k) == CHOOSE q \in 1..Len(s) : s[q] = k

IsBijection(s, len) ==
  /\ Len(s) = len
  /\ \A k \in 0..(len - 1) : Cardinality({q \in 1..Len(s) : s[q] = k}) = 1

\* the natural order of the values of type t: numeric <, bytewise
\* lexicographic on strings, false before true
Precedes(t, a, b) ==
  IF t = "BOOL" THEN ~a /\ b
  ELSE IF t = "STRING" THEN StrLess(a, b)
  ELSE IF t \in FloatTypes THEN ~a.nan /\ ~b.nan /\ a.x < b.x
  ELSE a < b

SortIndicesDone == op = "SortIndices" /\ input.typ \in SortTypes

\* the input is a float array with a NaN in a non-null slot
InputHasNaN ==
  /\ input.typ \in FloatTypes
  /\ \E q \in 1..Len(input.data) : input.data[q].valid /\ input.data[q].v.nan

(* ------------------------------ C1 ------------------------------------ *)

\* C1: for every input of a type SortIndices supports, with or without
\* nulls, under both orders, SortIndices returns no error and an index
\* array of the input's length in which every position of [0, n) occurs
\* exactly once; for an empty input the result is the empty array.
C1_Permutation ==
  SortIndicesDone =>
    /\ res.err = ""
    /\ res.typ = "INT64"
    /\ IsBijection(res.arr, Len(input.data))
    /\ (input.data = <<>> => res.arr = <<>>)

C1_Witness ==
  /\ SortIndicesDone
  /\ input.typ = "STRING"
  /\ order = Descending
  /\ Len(input.data) = MaxLen
  /\ HasNull(input.data)
  /\ res.arr # InitIndices(Len(input.data))
  /\ IsBijection(res.arr, Len(input.data))

(* ------------------------------ C2 ------------------------------------ *)

\* C2: in the output of SortIndices, under both orders, every index whose
\* input slot is null comes before every index whose input slot is not.
C2_NullFirst ==
  SortIndicesDone =>
    \A a, b \in 1..Len(res.arr) :
      (IsNull(input.data, res.arr[a]) /\ ~IsNull(input.data, res.arr[b])) => a < b

C2_Witness ==
  /\ SortIndicesDone
  /\ order = Descending
  /\ Len(input.data) = MaxLen
  /\ input.data[1].valid
  /\ ~input.data[2].valid
  /\ input.data[3].valid
  /\ res.arr[1] = 1

(* ------------------------------ C4 ------------------------------------ *)

TakeDone == op = "TakeWithIndices" /\ input.typ \in TakeTypes /\ indices.typ = "INT64"

InBounds(k) == 0 <= k /\ k < Len(input.data)

AllInBounds == \A k \in 1..Len(indices.data) : InBounds(indices.data[k])

\* C5: for a source of a supported type and an index array whose entries
\* all lie in [0, source length), TakeWithIndices returns an array of the
\* source's type with one slot per index, slot k being null exactly when
\* source[indices[k]] is null and holding its value otherwise; indices may
\* repeat or leave source positions out.
C5_Take ==
  (TakeDone /\ AllInBounds) =>
    /\ res.err = ""
    /\ res.typ = input.typ
    /\ Len(res.arr) = Len(indices.data)
    /\ \A k \in 1..Len(indices.data) :
         /\ res.arr[k].valid = ~IsNull(input.data, indices.data[k])
         /\ res.arr[k].valid => res.arr[k].v = Value(input.data, indices.data[k])

C5_Witness ==
  /\ TakeDone
  /\ AllInBounds
  /\ input.typ = "UINT16"
  /\ Len(input.data) = MaxLen
  /\ ~input.data[1].valid
  /\ input.data[2].valid
  /\ indices.data = <<0, 0>>
  /\ Len(res.arr) = 2
  /\ ~res.arr[1].valid

(* ------------------------------ C6 ------------------------------------ *)

\* C6: TakeWithIndices on a source of a supported type returns the
\* out-of-bounds error, and no array, exactly when some entry of the index
\* array is negative or not below the source length, wherever it stands.
C6_TakeBounds ==
  TakeDone =>
    /\ (res.err = "index out of bounds") <=> ~AllInBounds
    /\ ~AllInBounds => (res.isNil /\ res.arr = <<>>)

C6_Witness ==
  /\ TakeDone
  /\ Len(input.data) = 2
  /\ Len(indices.data) = MaxIdxLen
  /\ indices.data[1] = 0
  /\ indices.data[MaxIdxLen] = 2
  /\ res.err = "index out of bounds"
  /\ res.isNil

(* ------------------------------ C7 ------------------------------------ *)

\* C7: NthElement returns the out-of-range error exactly when n < 0 or
\* n >= length of the column, for every column type and both orders; on an
\* empty column every n fails.
C7_NthRange ==
  op = "NthElement" =>
    (res.err = "index out of range") <=> (n < 0 \/ n >= Len(input.data))

C7_Witness ==
  /\ op = "NthElement"
  /\ input.data = <<>>
  /\ n = 0
  /\ order = Descending
  /\ res.err = "index out of range"

(* ------------------------------ C8 ------------------------------------ *)

\* C8: for a column of a sortable type and 0 <= n < length, NthElement
\* returns no error and the value of slot n of Sort(column, order), or nil
\* when that slot is null.
C8_NthValue ==
  (op = "NthElement" /\ input.typ \in SortTypes /\ 0 <= n /\ n < Len(input.data)) =>
    LET sorted == Sort(input, order)
    IN /\ res.err = ""
       /\ sorted.err = ""
       /\ res.isNil = ~sorted.arr[n + 1].valid
       /\ ~res.isNil => res.val = sorted.arr[n + 1].v

C8_Witness ==
  /\ op = "NthElement"
  /\ input.typ = "FLOAT64"
  /\ input.data = <<Val("FLOAT64", F(5)), Val("FLOAT64", F(3)), Val("FLOAT64", F(1)),
                    Val("FLOAT64", F(4)), Val("FLOAT64", F(2))>>
  /\ order = Ascending
  /\ n = 2
  /\ ~res.isNil
  /\ res.val = F(3)

C8_WitnessNull ==
  /\ op = "NthElement"
  /\ input.typ \in SortTypes
  /\ Len(input.data) = MaxLen
  /\ input.data[1].valid
  /\ ~input.data[MaxLen].valid
  /\ n = 0
  /\ res.err = ""
  /\ res.isNil

(* ------------------------------ C3 ------------------------------------ *)

\* the values SortIndices' output refers to, nulls left out
SortedValues(data, idx) ==
  LET keep(q) == ~IsNull(data, idx[q])
      G[q \in 0..Len(idx)] ==
        IF q = 0 THEN <<>>
        ELSE IF keep(q) THEN Append(G[q - 1], Value(data, idx[q])) ELSE G[q - 1]
  IN G[Len(idx)]

\* no later value is smaller (Ascending) or greater (Descending) than an
\* earlier one
Ordered(t, vals, ord) ==
  \A a, b \in 1..Len(vals) :
    a < b => IF ord = Ascending THEN ~Precedes(t, vals[b], vals[a])
                                ELSE ~Precedes(t, vals[a], vals[b])

ExampleOfC3 ==
  /\ input.typ \in {"INT64", "FLOAT64"}
  /\ Len(input.data) = 5
  /\ order = Ascending

\* C3: among the non-null entries of SortIndices' output the referenced
\* values are non-decreasing under Ascending and non-increasing under
\* Descending in the natural order of the type; [5,3,1,4,2] Ascending gives
\* the indices [2,4,1,3,0].
C3_Ordering ==
  SortIndicesDone =>
    /\ Ordered(input.typ, SortedValues(input.data, res.arr), order)
    /\ ExampleOfC3 => res.arr = <<2, 4, 1, 3, 0>>

\* the same statement for inputs that hold no NaN
C3_OrderingWithoutNaN ==
  (SortIndicesDone /\ ~InputHasNaN) =>
    /\ Ordered(input.typ, SortedValues(input.data, res.arr), order)
    /\ ExampleOfC3 => res.arr = <<2, 4, 1, 3, 0>>

(* ------------------------------ C9 ------------------------------------ *)

RankDone == op = "Rank" /\ input.typ \in SortTypes

\* the ranks given to the non-null positions that hold value x
RanksOf(x) ==
  {res.arr[i] : i \in {q \in 1..Len(input.data) : input.data[q].valid /\ input.data[q].v = x}}

MaxOf(S) == CHOOSE m \in S : \A k \in S : k <= m

MinOf(S) == CHOOSE m \in S : \A k \in S : m <= k

\* a set of k ranks that fills a run of k consecutive integers
Consecutive(S) == S = {} \/ MaxOf(S) - MinOf(S) + 1 = Cardinality(S)

\* Rank is the inverse of the permutation of SortIndices
RankInverts ==
  LET p == SortIndices(input, order).arr
  IN /\ res.err = ""
     /\ Len(res.arr) = Len(input.data)
     /\ \A k \in 1..Len(p) : res.arr[p[k] + 1] = k - 1
     /\ IsBijection(res.arr, Len(input.data))

\* C9: with p = SortIndices(column, order) and r = Rank(column, order),
\* r[p[k]] = k for every k in [0, n); r is a bijection over [0, n) and
\* equal values receive different, consecutive ranks.
C9_RankInverse ==
  RankDone =>
    /\ RankInverts
    /\ \A q \in 1..Len(input.data) :
         input.data[q].valid => Consecutive(RanksOf(input.data[q].v))

\* the inverse-permutation part alone
C9_RankInversePermutation == RankDone => RankInverts

\* the whole statement for inputs that hold no NaN
C9_RankInverseWithoutNaN == (RankDone /\ ~InputHasNaN) => C9_RankInverse

(* ------------------------------ C10 ----------------------------------- *)

UniqueDone == op = "UniqueValues" /\ input.typ \in UniqueTypes

\* number of non-null slots of arr that hold x
Occurrences(arr, x) == Cardinality({q \in 1..Len(arr) : arr[q].valid /\ arr[q].v = x})

NullCount(arr) == Cardinality({q \in 1..Len(arr) : ~arr[q].valid})

\* C10: the output of UniqueValues on a Bool, Int64 or Float64 array holds
\* every distinct non-null input value exactly once, in strictly ascending
\* order, after exactly one leading null iff the input has a null, and
\* nothing else; [1,2,2,3,1,4,5,5] gives [1,2,3,4,5].
C10_UniqueValues ==
  UniqueDone =>
    /\ res.err = ""
    /\ res.typ = input.typ
    /\ NullCount(res.arr) = (IF HasNull(input.data) THEN 1 ELSE 0)
    /\ HasNull(input.data) => ~res.arr[1].valid
    /\ \A q \in 1..Len(input.data) :
         input.data[q].valid => Occurrences(res.arr, input.data[q].v) = 1
    /\ \A q \in 1..Len(res.arr) :
         res.arr[q].valid => HasValue(input.data, res.arr[q].v)
    /\ \A q \in 1..(Len(res.arr) - 1) :
         (res.arr[q].valid /\ res.arr[q + 1].valid)
           => Precedes(input.typ, res.arr[q].v, res.arr[q + 1].v)
    /\ (input.typ = "INT64" /\ Len(input.data) = 8)
         => res.arr = [i \in 1..5 |-> Val("INT64", i)]

\* the same statement for inputs that hold no NaN
C10_UniqueValuesWithoutNaN ==
  (UniqueDone /\ ~InputHasNaN) => C10_UniqueValues

(* ------------------------------ C11 ----------------------------------- *)

\* the array UniqueValues returned, handed to UniqueValues again
UniqueOutput == [typ |-> res.typ, data |-> res.arr]

\* C11: for every Bool, Int64 or Float64 array x, with or without nulls,
\* UniqueValues(UniqueValues(x)) equals UniqueValues(x) slot for slot, the
\* leading null included, whatever order the map is visited in.
C11_UniqueIdempotent ==
  UniqueDone =>
    \A p \in RangeOrders(UniqueOutput) :
      LET again == UniqueValues(UniqueOutput, p)
      IN /\ again.err = ""
         /\ again.typ = res.typ
         /\ again.arr = res.arr

C11_Witness ==
  /\ UniqueDone
  /\ input.typ = "INT64"
  /\ Len(input.data) = MaxLen
  /\ HasNull(input.data)
  /\ Len(res.arr) = 2
  /\ ~res.arr[1].valid
  /\ res.arr[2].valid
  /\ \A p \in RangeOrders(UniqueOutput) : UniqueValues(UniqueOutput, p).arr = res.arr

(* ------------------------------ C12 ----------------------------------- *)

CountValuesDone == op = "CountValues" /\ input.typ \in UniqueTypes

\* the number of input positions that holds what values[i] holds
Holding(i) ==
  IF res.arr[i].valid THEN Occurrences(input.data, res.arr[i].v)
  ELSE NullCount(input.data)

\* the values and counts of CountValues are parallel, the values are the
\* result of UniqueValues, and each count is the number of positions
\* holding its value
CountsMatch ==
  /\ res.err = ""
  /\ Len(res.arr) = Len(res.val)
  /\ \A p \in RangeOrders(input) : res.arr = UniqueValues(input, p).arr
  /\ \A i \in 1..Len(res.val) :
       /\ res.val[i].valid
       /\ res.val[i].v = Holding(i)
       /\ res.val[i].v >= 1

\* C12: for every Bool, Int64 or Float64 array CountValues returns values
\* and counts of equal length, values equal to UniqueValues(input) slot for
\* slot (null bucket first), counts[i] the number of input positions
\* holding values[i] (the null positions for the null bucket), every count
\* at least 1.
C12_CountValues == CountValuesDone => CountsMatch

\* the same for inputs without a NaN
C12_CountValuesWithoutNaN == (CountValuesDone /\ ~InputHasNaN) => CountsMatch

(* ------------------------------ C13 ----------------------------------- *)

RECURSIVE SeqSum(_)
SeqSum(c) == IF c = <<>> THEN 0 ELSE Head(c).v + SeqSum(Tail(c))

\* C13: the counts returned by CountValues sum to the array length, and
\* Count(x) + CountNull(x) is the array length, for every array.
C13_CountConservation ==
  /\ CountValuesDone => SeqSum(res.val) = Len(input.data)
  /\ op = "Count" => res.val + CountNull(input).val = Len(input.data)
  /\ op = "CountNull" => Count(input).val + res.val = Len(input.data)

\* the counts of CountValues on inputs without a NaN
C13_CountsSumWithoutNaN ==
  (CountValuesDone /\ ~InputHasNaN) => SeqSum(res.val) = Len(input.data)

\* Count and CountNull on every input
C13_CountPlusCountNull ==
  /\ op = "Count" =>
       /\ res.val = Cardinality({i \in 1..Len(input.data) : input.data[i].valid})
       /\ res.val + CountNull(input).val = Len(input.data)
  /\ op = "CountNull" =>
       /\ res.val = NullCount(input.data)
       /\ Count(input).val + res.val = Len(input.data)

(* ------------------------------ C14 ----------------------------------- *)

\* the non-null slots, in position order
NonNull(data) == SelectSeq(data, LAMBDA slot : slot.valid)

\* the total of a sequence of non-null slots in the accumulator's
\* arithmetic: integers exactly, floats added left to right, true as 1
RECURSIVE Total(_, _)
Total(t, vs) ==
  IF vs = <<>> THEN (IF t \in FloatTypes THEN F(0) ELSE 0)
  ELSE LET front == Total(t, SubSeq(vs, 1, Len(vs) - 1))
           last == vs[Len(vs)].v
       IN IF t = "BOOL" THEN front + (IF last THEN 1 ELSE 0)
          ELSE IF t \in FloatTypes THEN FAdd(front, last)
          ELSE front + last

\* the array with the raw value of every null slot overwritten by zero
Scrub(arr) ==
  [typ |-> arr.typ,
   data |-> [i \in 1..Len(arr.data) |->
              IF arr.data[i].valid THEN arr.data[i] ELSE Null(arr.typ)]]

SumDone == op = "Sum" /\ input.typ \in SumTypes

\* C14: for every numeric or boolean array Sum returns the total of the
\* non-null elements only, a non-null true counting 1 and false 0; the raw
\* value held by a null slot changes nothing; an empty or all-null array
\* gives zero.
C14_Sum ==
  SumDone =>
    /\ res.err = ""
    /\ res.typ = SumKind(input.typ)
    /\ res.val = Total(input.typ, NonNull(input.data))
    /\ res = Sum(Scrub(input))
    /\ (NonNull(input.data) = <<>> =>
          res.val = (IF input.typ \in FloatTypes THEN F(0) ELSE 0))

\* Example_count's array [1, 2, null (raw 3), 4, 5]: the total is 12
C14_Witness ==
  /\ SumDone
  /\ input.typ = "FLOAT64"
  /\ Len(input.data) = 5
  /\ ~input.data[3].valid
  /\ input.data[3].v = F(3)
  /\ res.val = F(12)

\* an all-null boolean array whose null slots hold true sums to 0
C14_WitnessAllNull ==
  /\ SumDone
  /\ input.typ = "BOOL"
  /\ Len(input.data) = 2
  /\ \A i \in 1..2 : ~input.data[i].valid /\ input.data[i].v
  /\ res.val = 0

(* ------------------------------ C15 ----------------------------------- *)

\* the number of non-null elements of the input
NonNullCount == Len(NonNull(input.data))

\* Sum, as a float, divided by the number of non-null elements
SumOverCount ==
  LET total == Total(input.typ, NonNull(input.data))
  IN FDiv(IF input.typ \in FloatTypes THEN total ELSE ToFloat(total),
          ToFloat(NonNullCount))

MeanOfSome ==
  (op = "Mean" /\ input.typ \in SumTypes /\ NonNullCount >= 1) =>
    /\ res.err = ""
    /\ res.val = SumOverCount

\* C15 as stated: Mean returns Sum divided by the number of non-null
\* elements when there is one, and fails with an error when the non-null
\* count is 0.
C15_MeanFailsOnNone ==
  /\ MeanOfSome
  /\ (op = "Mean" /\ NonNullCount = 0) => res.err # ""

\* C15 (amended): Mean returns Sum divided by the number of non-null
\* elements when there is one, and returns 0 with no error when the
\* non-null count is 0 (empty or all-null input, of any type).
C15_Mean ==
  /\ MeanOfSome
  /\ (op = "Mean" /\ NonNullCount = 0) => res = OkScalar("float64", F(0))

\* an all-null input: Mean is 0 and the error is nil
C15_Witness ==
  /\ op = "Mean"
  /\ Len(input.data) = 2
  /\ NonNullCount = 0
  /\ res.err = ""
  /\ res.val = F(0)

\* three slots of which two are non-null: the divisor is 2, the mean 1
C15_WitnessSome ==
  /\ op = "Mean"
  /\ input.typ = "INT64"
  /\ Len(input.data) = 3
  /\ NonNullCount = 2
  /\ res.val = F(1)

(* ------------------------------ C16 ----------------------------------- *)

C16_WitnessVariance ==
  /\ op = "Variance"
  /\ input.typ = "FLOAT64"
  /\ Len(input.data) = 2
  /\ NonNullCount = 1
  /\ res.err = ""
  /\ res.val = F(0)

(* ------------------------------ C17 ----------------------------------- *)

MinMaxDone == op \in {"Min", "Max"} /\ input.typ \in MinMaxTypes /\ NonNullCount >= 1

\* a <= b in the order of the element type (false < true; a float
\* comparison with a NaN operand is false)
LessEq(t, a, b) ==
  IF t = "BOOL" THEN ~a \/ b
  ELSE IF t \in FloatTypes THEN ~a.nan /\ ~b.nan /\ a.x <= b.x
  ELSE a <= b

\* the non-null elements a bound is measured against: all of them, except
\* NaN elements, which no value is <= or >=
Comparable(t, v) == IF t \in FloatTypes THEN ~v.nan ELSE TRUE

MinMaxCorrect ==
  LET t == input.typ
      vs == NonNull(input.data)
  IN /\ res.err = ""
     /\ ~res.isNil
     /\ \E i \in 1..Len(vs) : vs[i].v = res.val
     /\ op = "Min" =>
          /\ \A i \in 1..Len(vs) : Comparable(t, vs[i].v) => LessEq(t, res.val, vs[i].v)
          /\ t = "BOOL" => (res.val = FALSE <=> \E i \in 1..Len(vs) : ~vs[i].v)
          /\ res = Min(Scrub(input))
     /\ op = "Max" =>
          /\ \A i \in 1..Len(vs) : Comparable(t, vs[i].v) => LessEq(t, vs[i].v, res.val)
          /\ t = "BOOL" => (res.val = TRUE <=> \E i \in 1..Len(vs) : vs[i].v)
          /\ res = Max(Scrub(input))

\* C17: for every Bool, Int8..Int64 or Float64 array with a non-null
\* element, Min returns a value found at a non-null position that is <=
\* every non-null element and Max one that is >= every non-null element;
\* for booleans Min is false iff some non-null element is false and Max is
\* true iff some non-null element is true; null slots never influence the
\* result.
C17_MinMax == MinMaxDone => MinMaxCorrect

\* the same for inputs without a NaN
C17_MinMaxWithoutNaN == (MinMaxDone /\ ~InputHasNaN) => MinMaxCorrect

(* ------------------------------ C18 ----------------------------------- *)

AsFloat(t, v) == IF t \in FloatTypes THEN v ELSE ToFloat(v)

\* sum((v - m)^2) over a sequence of non-null slots, added left to right
RECURSIVE SquaredDeviations(_, _, _)
SquaredDeviations(t, vs, m) ==
  IF vs = <<>> THEN F(0)
  ELSE LET d == FSub(AsFloat(t, vs[Len(vs)].v), m)
       IN FAdd(SquaredDeviations(t, SubSeq(vs, 1, Len(vs) - 1), m), FMul(d, d))

\* sum((v - m)^2) / k with m = sum(v) / k
PopulationVariance ==
  FDiv(SquaredDeviations(input.typ, NonNull(input.data), SumOverCount),
       ToFloat(NonNullCount))

VarianceDone == op = "Variance" /\ input.typ \in VarianceTypes /\ NonNullCount >= 2

StdDevDone ==
  op = "StandardDeviation" /\ input.typ \in VarianceTypes /\ NonNullCount >= 2

\* == on the element type: a NaN is equal to nothing
AllEqual ==
  \A i, j \in 1..NonNullCount :
    KeyEq(input.typ, NonNull(input.data)[i].v, NonNull(input.data)[j].v)

AllEqualMean ==
  \A i \in 1..NonNullCount :
    KeyEq("FLOAT64", AsFloat(input.typ, NonNull(input.data)[i].v), SumOverCount)

IsExample12345 ==
  /\ input.typ = "FLOAT64"
  /\ input.data = <<Val("FLOAT64", F(1)), Val("FLOAT64", F(2)), Val("FLOAT64", F(3)),
                    Val("FLOAT64", F(4)), Val("FLOAT64", F(5))>>

\* r is the float nearest to the square root of v (NaN for NaN)
IsSqrt(r, v) ==
  IF v.nan THEN r.nan
  ELSE /\ ~r.nan
       /\ r.x >= 0
       /\ Representable(r.x)
       /\ \A q \in 0..(v.x + Unit) : Representable(q) => Closer(r.x, q, v.x)

\* what C18 says besides the condition for a zero variance
VarianceFormula ==
  /\ VarianceDone =>
       /\ res.err = ""
       /\ res.val = PopulationVariance
       /\ (~res.val.nan => res.val.x >= 0)
       /\ (IsExample12345 => res.val = F(2))
  /\ StdDevDone =>
       /\ res.err = ""
       /\ IsSqrt(res.val, Variance(input).val)

C18_WitnessExample == VarianceDone /\ IsExample12345 /\ res.val = F(2)

\* StandardDeviation of the example: the float nearest to sqrt(2)
C18_WitnessStdDev == StdDevDone /\ IsExample12345 /\ res.val = FSqrt(F(2))

(* ------------------------------ C19 ----------------------------------- *)

ModeDone == op = "Mode" /\ input.typ \in UniqueTypes /\ NonNullCount >= 1

ModeCorrect ==
  LET vs == NonNull(input.data)
  IN /\ res.err = ""
     /\ ~res.isNil
     /\ \E i \in 1..Len(vs) : vs[i].v = res.val
     /\ \A i \in 1..Len(vs) :
          Occurrences(input.data, res.val) >= Occurrences(input.data, vs[i].v)
     /\ \E p \in CountOrders(Scrub(input)) : res = Mode(Scrub(input), p)

\* C19: for every Bool, Int64 or Float64 array with a non-null element,
\* Mode returns a non-null value of the input that occurs at least as often
\* as every other non-null value, under every map iteration order; nulls
\* are never counted.
C19_Mode == ModeDone => ModeCorrect

\* the same for inputs without a NaN
C19_ModeWithoutNaN == (ModeDone /\ ~InputHasNaN) => ModeCorrect

(* ------------------------------ C20 ----------------------------------- *)

\* C20: on a boolean array Any is true iff some non-null element is true
\* and All is true iff no non-null element is false (Any false and All
\* true on an empty or all-null array); on a non-boolean array both return
\* the type-mismatch error.
C20_AnyAll ==
  LET vs == NonNull(input.data)
  IN /\ (op = "Any" /\ input.typ = "BOOL") =>
          /\ res.err = ""
          /\ res.val = (\E i \in 1..Len(vs) : vs[i].v)
          /\ (vs = <<>> => res.val = FALSE)
     /\ (op = "All" /\ input.typ = "BOOL") =>
          /\ res.err = ""
          /\ res.val = (\A i \in 1..Len(vs) : vs[i].v)
          /\ (vs = <<>> => res.val = TRUE)
     /\ (op = "Any" /\ input.typ # "BOOL") =>
          res.err = "any operation only supported on boolean arrays"
     /\ (op = "All" /\ input.typ # "BOOL") =>
          res.err = "all operation only supported on boolean arrays"

\* All on [true, null] whose null slot holds false: the null is skipped
C20_Witness ==
  /\ op = "All"
  /\ input.typ = "BOOL"
  /\ Len(input.data) = 2
  /\ input.data[1] = Val("BOOL", TRUE)
  /\ input.data[2] = [valid |-> FALSE, v |-> FALSE]
  /\ res.val = TRUE

\* Any on an all-null array whose null slots hold true
C20_WitnessAny ==
  /\ op = "Any"
  /\ input.typ = "BOOL"
  /\ Len(input.data) = 2
  /\ \A i \in 1..2 : ~input.data[i].valid /\ input.data[i].v
  /\ res.val = FALSE

\* Any on an Int64 array: the type-mismatch error
C20_WitnessMismatch ==
  /\ op = "Any"
  /\ input.typ = "INT64"
  /\ Len(input.data) = 1
  /\ res.err # ""

(* ------------------------------ C21 ----------------------------------- *)

\* the 'not implemented' errors of the kernels
NotImplemented ==
  {"not implemented", "value_counts not implemented", "sum not implemented",
   "mean not implemented", "min not implemented", "max not implemented",
   "mode not implemented", "variance not implemented"}

\* the call in the current state is on a type tag its kernel has no arm for
NoDispatchArm ==
  \/ op = "SortIndices" /\ input.typ \notin SortTypes
  \/ op = "TakeWithIndices" /\ input.typ \notin TakeTypes /\ indices.typ = "INT64"
  \/ op \in {"UniqueValues", "CountValues", "Mode"} /\ input.typ \notin UniqueTypes
  \/ op \in {"Sum", "Mean"} /\ input.typ \notin SumTypes
  \/ op \in {"Min", "Max"} /\ input.typ \notin MinMaxTypes
  \/ op = "Variance" /\ input.typ \notin VarianceTypes

\* C21: whenever SortIndices, TakeWithIndices, UniqueValues, CountValues,
\* Sum, Mean, Min, Max, Mode or Variance is called on an array whose type
\* tag has no dispatch arm in that kernel, the call returns a 'not
\* implemented' error, empty and all-null arrays included, and never a
\* default or 'no value' result.
C21_TypeUnsupported == NoDispatchArm => res.err \in NotImplemented

\* the same for inputs with at least one non-null element
C21_TypeUnsupportedNonEmpty ==
  (NoDispatchArm /\ Len(SelectSeq(input.data, LAMBDA slot : slot.valid)) >= 1) =>
    res.err \in NotImplemented

(* ------------------------------ C27 ----------------------------------- *)

\* C27: when the input holds two or more nulls, SortIndices lists the null
\* positions in increasing original index order under both orders, and
\* Rank gives earlier nulls smaller ranks.
C27_NullStability ==
  /\ SortIndicesDone =>
       \A i, j \in 0..(Len(input.data) - 1) :
         (i < j /\ IsNull(input.data, i) /\ IsNull(input.data, j))
         => PosOf(res.arr, i) < PosOf(res.arr, j)
  /\ RankDone =>
       \A i, j \in 0..(Len(input.data) - 1) :
         (i < j /\ IsNull(input.data, i) /\ IsNull(input.data, j))
         => res.arr[i + 1] < res.arr[j + 1]

\* what the program does instead: the null positions come out in
\* decreasing original index order
C27_NullsReversed ==
  SortIndicesDone =>
    \A i, j \in 0..(Len(input.data) - 1) :
      (i < j /\ IsNull(input.data, i) /\ IsNull(input.data, j))
      => PosOf(res.arr, i) > PosOf(res.arr, j)

(* ------------------------- record operations -------------------------- *)

\* A record batch is a sequence of columns [name, typ, data, refs]; every
\* column has the same number of slots.  A column name is a sequence of
\* byte codes; refs is the reference count of the column's array (1 while
\* only the record holds it).

MaxRows == 2

NameA == <<97>>

NameB == <<98>>

\* a name no batch of the model has a column for
NameZ == <<122>>

OkRecord(cols, rows) ==
  [err |-> "", typ |-> "RECORD", arr |-> cols, isNil |-> FALSE, val |-> rows]

\* schema.Fields() searched from the front: the 1-based position of the
\* first field called name, 0 when there is none
FieldIndex(rec, name) ==
  IF \E i \in 1..Len(rec) : rec[i].name = name
    THEN CHOOSE i \in 1..Len(rec) :
           rec[i].name = name /\ \A j \in 1..(i - 1) : rec[j].name # name
    ELSE 0

ArrayOf(col) == [typ |-> col.typ, data |-> col.data]

Retain(rec, c) == [rec EXCEPT ![c].refs = @ + 1]

\* ReleaseArray on a non-nil array
ReleaseArray(rec, c) == [rec EXCEPT ![c].refs = @ - 1]

\* GetColumn: the record with the found column retained
GetColumn(rec, name) ==
  LET c == FieldIndex(rec, name)
  IN IF c = 0 THEN [err |-> "column not found", c |-> 0, rec |-> rec]
     ELSE [err |-> "", c |-> c, rec |-> Retain(rec, c)]

\* the column loop of SortRecord from column i on; cols are the output
\* columns produced so far, each created with reference count 1
RECURSIVE sortColumns(_, _, _, _)
sortColumns(rec, ind, i, cols) ==
  IF i > Len(rec) THEN [err |-> "", cols |-> cols]
  ELSE LET sorted == TakeWithIndices(ArrayOf(rec[i]), ind)
       IN IF sorted.err # ""
            THEN [err |-> "error sorting column", cols |-> cols]
            ELSE sortColumns(rec, ind, i + 1,
                   Append(cols, [name |-> rec[i].name, typ |-> sorted.typ,
                                 data |-> sorted.arr, refs |-> 1]))

\* SortRecord with its deferred calls run: res is the return value, input
\* the record with the reference counts the call leaves, allocated the
\* reference counts of the arrays the call created (the index array and
\* the output columns in column order)
SortRecord(rec, sortCols, sortOrders) ==
  IF Len(sortCols) = 0
    THEN [res |-> Err("no sort columns specified"), input |-> rec,
          allocated |-> NoAllocation]
  ELSE IF Len(sortCols) # Len(sortOrders)
    THEN [res |-> Err("number of sort columns does not match number of sort orders"),
          input |-> rec, allocated |-> NoAllocation]
  ELSE
    LET got == GetColumn(rec, sortCols[1])
    IN IF got.err # ""
         THEN [res |-> Err(got.err), input |-> rec, allocated |-> NoAllocation]
         ELSE
           LET c == got.c
               ind == SortIndices(ArrayOf(rec[c]), sortOrders[1])
           IN IF ind.err # ""
                \* ReleaseArray(col) before the return, and the deferred one
                THEN [res |-> Err(ind.err),
                      input |-> ReleaseArray(ReleaseArray(got.rec, c), c),
                      allocated |-> NoAllocation]
                ELSE
                  LET out == sortColumns(rec, [typ |-> "INT64", data |-> ind.arr], 1, <<>>)
                  IN IF out.err # ""
                       \* the produced columns are released, then the
                       \* deferred releases of the indices and the column
                       THEN [res |-> Err(out.err),
                             input |-> ReleaseArray(got.rec, c),
                             allocated |-> [indices |-> 0,
                                            cols |-> [j \in 1..Len(out.cols) |-> 0]]]
                       \* NewRecord retains each column, the loop releases
                       \* each once: the result record is the only holder
                       ELSE [res |-> OkRecord(out.cols, Len(out.cols[1].data)),
                             input |-> ReleaseArray(got.rec, c),
                             allocated |-> [indices |-> 0,
                                            cols |-> [j \in 1..Len(out.cols) |-> 1]]]

\* the column types of the sorted batches: a sortable pair, a sort column
\* SortIndices has no arm for, and a column TakeWithIndices has no arm for
SortRecordSchemas ==
  {<<"INT64", "INT64">>, <<"UINT8", "INT64">>, <<"INT64", "DATE32">>}

RecordSlots(t) == {Val(t, 0), Val(t, 1), Null(t)}

SortRecordBatches ==
  {<<[name |-> NameA, typ |-> sch[1], data |-> a, refs |-> 1],
     [name |-> NameB, typ |-> sch[2], data |-> b, refs |-> 1]>> :
     <<sch, a, b>> \in
       UNION {{sch} \X [1..r -> RecordSlots(sch[1])] \X [1..r -> RecordSlots(sch[2])] :
              <<sch, r>> \in SortRecordSchemas \X (0..MaxRows)}}

InitSortRecord ==
  /\ input \in SortRecordBatches
  /\ \E cols \in SeqsUpTo({NameA, NameB, NameZ}, 2) :
       \E ords \in SeqsUpTo(SortOrder, 2) :
         args = [NoArgs EXCEPT !.sortCols = cols, !.sortOrders = ords]
  /\ order = Ascending
  /\ op = "none"
  /\ indices = NoIndices
  /\ n = 0
  /\ res = OkNil
  /\ allocated = NoAllocation

DoSortRecord ==
  /\ op = "none"
  /\ \A c \in 1..Len(input) : input[c].refs >= 1
  /\ LET r == SortRecord(input, args.sortCols, args.sortOrders)
     IN /\ res' = r.res
        /\ input' = r.input
        /\ allocated' = r.allocated
  /\ op' = "SortRecord"
  /\ UNCHANGED <<order, indices, n, args>>

\* the caller drops the returned record, if any
DoReleaseRecord ==
  /\ op # "none"
  /\ op' = "none"
  /\ res' = OkNil
  /\ allocated' = [allocated EXCEPT !.cols = [j \in 1..Len(@) |-> 0]]
  /\ UNCHANGED <<input, order, indices, n, args>>

NextSortRecord ==
  \/ DoSortRecord
  \/ DoReleaseRecord

SortRecordSpec == InitSortRecord /\ [][NextSortRecord]_vars

(* ------------------------------ C26 ----------------------------------- *)

SortRecordDone == op = "SortRecord"

\* the call reached SortIndices and SortIndices failed
SortIndicesFailed ==
  /\ Len(args.sortCols) >= 1
  /\ Len(args.sortCols) = Len(args.sortOrders)
  /\ FieldIndex(input, args.sortCols[1]) # 0
  /\ input[FieldIndex(input, args.sortCols[1])].typ \notin SortTypes

\* C26: on every return path of SortRecord every reference the call
\* acquired is released exactly once: every input column has the reference
\* count it had before the call (1), the index array is freed, after an
\* error no output column remains allocated, and after a success the
\* result record is the only holder of each output column.
C26_ResourceBalance ==
  SortRecordDone =>
    /\ \A c \in 1..Len(input) : input[c].refs = 1
    /\ allocated.indices = 0
    /\ res.err # "" => \A j \in 1..Len(allocated.cols) : allocated.cols[j] = 0
    /\ res.err = "" =>
         /\ Len(allocated.cols) = Len(input)
         /\ \A j \in 1..Len(allocated.cols) : allocated.cols[j] = 1

\* the same on the paths other than the SortIndices failure
C26_BalanceUnlessSortIndicesFails ==
  (SortRecordDone /\ ~SortIndicesFailed) =>
    /\ \A c \in 1..Len(input) : input[c].refs = 1
    /\ allocated.indices = 0
    /\ res.err # "" => \A j \in 1..Len(allocated.cols) : allocated.cols[j] = 0
    /\ res.err = "" => \A j \in 1..Len(allocated.cols) : allocated.cols[j] = 1

\* on the SortIndices failure the retained column is released twice
C26_DoubleRelease ==
  (SortRecordDone /\ SortIndicesFailed) =>
    /\ res.err = "not implemented"
    /\ input[FieldIndex(input, args.sortCols[1])].refs = 0

(* ------------------------------ C28 ----------------------------------- *)

\* row x comes strictly before row y on one column under ord: a null
\* before every value, values by < (Ascending) or > (Descending)
ColumnBefore(col, ord, x, y) ==
  IF IsNull(col.data, x) THEN ~IsNull(col.data, y)
  ELSE IF IsNull(col.data, y) THEN FALSE
  ELSE IF ord = Ascending
    THEN LessThan(col.typ, Value(col.data, x), Value(col.data, y))
    ELSE LessThan(col.typ, Value(col.data, y), Value(col.data, x))

\* row x comes strictly before row y on the sort columns j, j + 1, ...
RECURSIVE RowBefore(_, _, _, _, _, _)
RowBefore(rec, sortCols, sortOrders, j, x, y) ==
  IF j > Len(sortCols) THEN FALSE
  ELSE LET col == rec[FieldIndex(rec, sortCols[j])]
       IN IF ColumnBefore(col, sortOrders[j], x, y) THEN TRUE
          ELSE IF ColumnBefore(col, sortOrders[j], y, x) THEN FALSE
          ELSE RowBefore(rec, sortCols, sortOrders, j + 1, x, y)

\* every column of out is the same column of rec permuted by one permutation
SameRowsPermuted(rec, out) ==
  /\ Len(out) = Len(rec)
  /\ \A c \in 1..Len(rec) :
       /\ out[c].name = rec[c].name
       /\ out[c].typ = rec[c].typ
       /\ Len(out[c].data) = Len(rec[c].data)
  /\ \E p \in Perms(Len(rec[1].data)) :
       \A c \in 1..Len(rec) : \A i \in 1..Len(rec[c].data) :
         out[c].data[i] = rec[c].data[p[i]]

RowsOrdered(out, sortCols, sortOrders) ==
  \A i \in 0..(Len(out[1].data) - 2) :
    ~RowBefore(out, sortCols, sortOrders, 1, i + 1, i)

AllSortColumnsExist ==
  \A j \in 1..Len(args.sortCols) : FieldIndex(input, args.sortCols[j]) # 0

\* C28: SortRecord with an empty sortCols or with sortCols and sortOrders
\* of different lengths returns an error; a successful call returns the
\* input rows, every column permuted by the same permutation, ordered by
\* sortCols[0] under sortOrders[0], rows equal on the earlier columns
\* ordered by the next sort column under its order.
C28_MultiColumnSort ==
  SortRecordDone =>
    /\ (Len(args.sortCols) = 0 \/ Len(args.sortCols) # Len(args.sortOrders))
         => (res.err # "" /\ res.isNil)
    /\ (res.err = "" /\ AllSortColumnsExist) =>
         /\ SameRowsPermuted(input, res.arr)
         /\ RowsOrdered(res.arr, args.sortCols, args.sortOrders)

\* what the program does: the rows are ordered by the first sort column
\* alone, and the later names are not looked up
C28_FirstColumnOnly ==
  SortRecordDone =>
    /\ (Len(args.sortCols) = 0 \/ Len(args.sortCols) # Len(args.sortOrders))
         => (res.err # "" /\ res.isNil)
    /\ res.err = "" =>
         /\ SameRowsPermuted(input, res.arr)
         /\ RowsOrdered(res.arr, <<args.sortCols[1]>>, <<args.sortOrders[1]>>)

(* ----------------------- RecordWrapper.GroupBy ------------------------ *)

\* the token of a null key value: "NULL"
NullToken == <<78, 85, 76, 76>>

\* the decimal digits of a natural number
RECURSIVE Digits(_)
Digits(k) ==
  IF k < 10 THEN <<48 + k>> ELSE Digits(k \div 10) \o <<48 + (k % 10)>>

\* fmt.Sprintf("%d", v)
FormatD(v) == IF v < 0 THEN <<45>> \o Digits(-v) ELSE Digits(v)

\* fmt.Sprintf("%f", v): six decimals, "NaN" for a NaN.  A step of the
\* reduced format is a power of two no smaller than 2^-6, so the six
\* decimals are exact.
FormatF(v) ==
  IF v.nan THEN <<78, 97, 78>>
  ELSE LET a == Abs(v.x)
           frac == Digits(((a % Unit) * 1000000) \div Unit)
       IN (IF v.x < 0 THEN <<45>> ELSE <<>>) \o Digits(a \div Unit) \o <<46>>
          \o [i \in 1..(6 - Len(frac)) |-> 48] \o frac

\* fmt.Sprintf("%t", v)
FormatT(v) == IF v THEN <<116, 114, 117, 101>> ELSE <<102, 97, 108, 115, 101>>

\* the arms of the key switches and of the sub-array switch
GroupTypes == {"INT64", "FLOAT64", "STRING", "BOOL"}

\* keyValues[i] for one key array and one row
keyValue(col, rowIdx) ==
  IF IsNull(col.data, rowIdx) THEN [err |-> "", tok |-> NullToken]
  ELSE IF col.typ = "INT64" THEN [err |-> "", tok |-> FormatD(Value(col.data, rowIdx))]
  ELSE IF col.typ = "FLOAT64" THEN [err |-> "", tok |-> FormatF(Value(col.data, rowIdx))]
  ELSE IF col.typ = "STRING" THEN [err |-> "", tok |-> Value(col.data, rowIdx)]
  ELSE IF col.typ = "BOOL" THEN [err |-> "", tok |-> FormatT(Value(col.data, rowIdx))]
  ELSE [err |-> "unsupported key column data type", tok |-> <<>>]

RECURSIVE joinTokens(_, _)
joinTokens(toks, i) ==
  IF i > Len(toks) THEN <<>>
  ELSE (IF i > 1 THEN <<32>> ELSE <<>>) \o toks[i] \o joinTokens(toks, i + 1)

\* fmt.Sprintf("%v", keyValues) of a []string: [tok tok ...]
SprintV(toks) == <<91>> \o joinTokens(toks, 1) \o <<93>>

\* groupMap[key] = append(groupMap[key], rowIdx); the map is kept as its
\* entries [key, rows] in order of first insertion
mapAppend(groupMap, key, rowIdx) ==
  IF \E b \in 1..Len(groupMap) : groupMap[b].key = key
    THEN [b \in 1..Len(groupMap) |->
            IF groupMap[b].key = key
              THEN [groupMap[b] EXCEPT !.rows = Append(@, rowIdx)]
              ELSE groupMap[b]]
    ELSE Append(groupMap, [key |-> key, rows |-> <<rowIdx>>])

\* the row loop from row rowIdx on
RECURSIVE groupRows(_, _, _, _)
groupRows(keyArrays, numRows, rowIdx, groupMap) ==
  IF rowIdx >= numRows THEN [err |-> "", groupMap |-> groupMap]
  ELSE LET vals == [i \in 1..Len(keyArrays) |-> keyValue(keyArrays[i], rowIdx)]
       IN IF \E i \in 1..Len(vals) : vals[i].err # ""
            THEN [err |-> "unsupported key column data type", groupMap |-> <<>>]
            ELSE groupRows(keyArrays, numRows, rowIdx + 1,
                   mapAppend(groupMap, SprintV([i \in 1..Len(vals) |-> vals[i].tok]), rowIdx))

NumRows(rec) == IF Len(rec) = 0 THEN 0 ELSE Len(rec[1].data)

\* the key loop of one bucket from keyColumns[j] on: one append to the
\* builder of the name for every occurrence of the name
RECURSIVE appendKeys(_, _, _, _, _)
appendKeys(rec, keyColumns, j, firstRowIdx, keyBuilders) ==
  IF j > Len(keyColumns) THEN keyBuilders
  ELSE LET col == rec[FieldIndex(rec, keyColumns[j])]
           slot == IF IsNull(col.data, firstRowIdx) THEN Null(col.typ)
                   ELSE Val(col.typ, Value(col.data, firstRowIdx))
       IN appendKeys(rec, keyColumns, j + 1, firstRowIdx,
            [keyBuilders EXCEPT ![keyColumns[j]] = Append(@, slot)])

\* the sub-array of one bucket: AppendNull for a null row, Append in the
\* four arms of the switch, nothing for a value of another type
RECURSIVE sliceRows(_, _, _, _)
sliceRows(col, rowIndices, k, slots) ==
  IF k > Len(rowIndices) THEN [typ |-> col.typ, data |-> slots]
  ELSE IF IsNull(col.data, rowIndices[k])
    THEN sliceRows(col, rowIndices, k + 1, Append(slots, Null(col.typ)))
  ELSE IF col.typ \in GroupTypes
    THEN sliceRows(col, rowIndices, k + 1,
           Append(slots, Val(col.typ, Value(col.data, rowIndices[k]))))
  ELSE sliceRows(col, rowIndices, k + 1, slots)

\* a caller's aggregator: the first non-null element as an interface{}
\* (a string for a String column, a bool for a Bool column), nil when
\* there is none
First(arr) ==
  IF Len(arr.data) = NullN(arr.data) THEN OkNil
  ELSE OkScalar(arr.typ,
         arr.data[CHOOSE i \in 1..Len(arr.data) :
                    arr.data[i].valid /\ \A j \in 1..(i - 1) : ~arr.data[j].valid].v)

\* the aggregators the model passes: the kernels Sum and Min, Mean
\* wrapped to return its float64 as an interface{}, and First
Aggregators == {"Sum", "Mean", "Min", "First"}

aggFunc(f, slice) ==
  IF f = "Sum" THEN Sum(slice)
  ELSE IF f = "Mean" THEN Mean(slice)
  ELSE IF f = "Min" THEN Min(slice)
  ELSE First(slice)

RECURSIVE scanDigits(_, _)
scanDigits(s, acc) ==
  IF s = <<>> \/ Head(s) < 48 \/ Head(s) > 57 THEN acc
  ELSE scanDigits(Tail(s), (10 * acc) + (Head(s) - 48))

RECURSIVE skipSpaces(_)
skipSpaces(s) == IF s # <<>> /\ Head(s) = 32 THEN skipSpaces(Tail(s)) ELSE s

\* fmt.Sscanf(v, "%f", &f) on the strings of the model (spaces, a sign,
\* digits and letters that start no number): leading spaces are skipped,
\* then a sign and the longest run of digits are read; no digit is an error
Sscanf(v) ==
  LET t == skipSpaces(v)
      neg == t # <<>> /\ Head(t) = 45
      u == IF t # <<>> /\ Head(t) \in {43, 45} THEN Tail(t) ELSE t
  IN IF u = <<>> \/ Head(u) < 48 \/ Head(u) > 57
       THEN [err |-> "expected number", f |-> F(0)]
       ELSE [err |-> "", f |-> ToFloat(IF neg THEN -scanDigits(u, 0) ELSE scanDigits(u, 0))]

\* convert that appends 0 for a nil result
convert_nilAsZero(aggResult) ==
  IF aggResult.err # "" THEN [err |-> aggResult.err, f |-> F(0)]
  ELSE IF aggResult.isNil THEN [err |-> "", f |-> F(0)]
  ELSE IF aggResult.typ \in {"int64", "INT64"}
    THEN [err |-> "", f |-> ToFloat(aggResult.val)]
  ELSE IF aggResult.typ \in {"float64", "FLOAT64"}
    THEN [err |-> "", f |-> aggResult.val]
  ELSE IF aggResult.typ = "STRING"
    THEN IF Sscanf(aggResult.val).err # ""
           THEN [err |-> "cannot convert string to float64", f |-> F(0)]
           ELSE [err |-> "", f |-> Sscanf(aggResult.val).f]
  ELSE [err |-> "unsupported aggregation result type", f |-> F(0)]

\* the error check and the type switch on aggResult: an int64, a float64
\* or a string gives the float64 to append
convert(aggResult) ==
  IF aggResult.err # "" THEN [err |-> aggResult.err, f |-> F(0)]
  ELSE IF aggResult.isNil
    THEN [err |-> "unsupported aggregation result type", f |-> F(0)]
  ELSE IF aggResult.typ \in {"int64", "INT64"}
    THEN [err |-> "", f |-> ToFloat(aggResult.val)]
  ELSE IF aggResult.typ \in {"float64", "FLOAT64"}
    THEN [err |-> "", f |-> aggResult.val]
  ELSE IF aggResult.typ = "STRING"
    THEN IF Sscanf(aggResult.val).err # ""
           THEN [err |-> "cannot convert string to float64", f |-> F(0)]
           ELSE [err |-> "", f |-> Sscanf(aggResult.val).f]
  ELSE [err |-> "unsupported aggregation result type", f |-> F(0)]

\* the aggregation loop of one bucket from the j-th map key on; names is
\* the order in which range yields the keys of aggregations
RECURSIVE aggregateBucket(_, _, _, _, _, _)
aggregateBucket(rec, aggregations, names, j, rowIndices, aggBuilders) ==
  IF j > Len(names) THEN [err |-> "", aggBuilders |-> aggBuilders]
  ELSE LET c == FieldIndex(rec, names[j])
       IN IF c = 0 THEN [err |-> "column not found", aggBuilders |-> aggBuilders]
          ELSE LET slice == sliceRows(rec[c], rowIndices, 1, <<>>)
                   v == convert(aggFunc(aggregations[names[j]], slice))
               IN IF v.err # "" THEN [err |-> v.err, aggBuilders |-> aggBuilders]
                  ELSE aggregateBucket(rec, aggregations, names, j + 1, rowIndices,
                         [aggBuilders EXCEPT ![names[j]] = Append(@, Val("FLOAT64", v.f))])

\* the bucket loop from the b-th bucket on; buckets are the entries of
\* groupMap in the order range yields them
RECURSIVE groupLoop(_, _, _, _, _, _, _, _)
groupLoop(rec, keyColumns, aggregations, names, buckets, b, keyBuilders, aggBuilders) ==
  IF b > Len(buckets)
    THEN [err |-> "", keyBuilders |-> keyBuilders, aggBuilders |-> aggBuilders]
  ELSE LET rowIndices == buckets[b].rows
           keys == appendKeys(rec, keyColumns, 1, rowIndices[1], keyBuilders)
           aggs == aggregateBucket(rec, aggregations, names, 1, rowIndices, aggBuilders)
       IN IF aggs.err # ""
            THEN [err |-> aggs.err, keyBuilders |-> keys, aggBuilders |-> aggBuilders]
            ELSE groupLoop(rec, keyColumns, aggregations, names, buckets, b + 1,
                           keys, aggs.aggBuilders)

OkGroupBy(keys, aggs) ==
  [err |-> "", typ |-> "GroupByResult", arr |-> <<>>, isNil |-> FALSE,
   val |-> [Keys |-> keys, Aggregates |-> aggs]]

\* the groupMap of the batch for the key columns (all of them existing)
groupMapOf(rec, keyColumns) ==
  groupRows([i \in 1..Len(keyColumns) |-> rec[FieldIndex(rec, keyColumns[i])]],
            NumRows(rec), 0, <<>>)

\* GroupBy; p is the order in which range yields the buckets of groupMap
\* and names the order in which it yields the keys of aggregations
GroupBy(rec, keyColumns, aggregations, p, names) ==
  IF \E i \in 1..Len(keyColumns) : FieldIndex(rec, keyColumns[i]) = 0
    THEN Err("column not found")
  ELSE
    LET groups == groupMapOf(rec, keyColumns)
    IN IF groups.err # "" THEN Err(groups.err)
       ELSE IF \E i \in 1..Len(keyColumns) :
                 rec[FieldIndex(rec, keyColumns[i])].typ \notin GroupTypes
         THEN Err("unsupported key column data type")
       ELSE
         LET buckets == [b \in 1..Len(groups.groupMap) |-> groups.groupMap[p[b]]]
             out == groupLoop(rec, keyColumns, aggregations, names, buckets, 1,
                              [k \in {keyColumns[i] : i \in 1..Len(keyColumns)} |-> <<>>],
                              [v \in DOMAIN aggregations |-> <<>>])
         IN IF out.err # "" THEN Err(out.err)
            ELSE OkGroupBy(
                   [k \in DOMAIN out.keyBuilders |->
                      [typ |-> rec[FieldIndex(rec, k)].typ, data |-> out.keyBuilders[k]]],
                   [v \in DOMAIN out.aggBuilders |->
                      [typ |-> "FLOAT64", data |-> out.aggBuilders[v]]])

NameK == <<107>>

NameV == <<118>>

\* the key and value column types of the grouped batches: every key arm,
\* a key type without an arm, and value types with and without an arm of
\* the sub-array switch
GroupBySchemas ==
  {<<"STRING", "INT64">>, <<"INT64", "FLOAT64">>, <<"FLOAT64", "INT32">>,
   <<"BOOL", "UINT8">>, <<"DATE32", "BOOL">>, <<"STRING", "STRING">>}

\* key strings "A" and "NULL", value strings "1" and "x"
GroupValues(t, isKey) ==
  IF t = "STRING" THEN (IF isKey THEN {<<65>>, NullToken} ELSE {<<49>>, <<120>>})
  ELSE IF t = "BOOL" THEN {FALSE, TRUE}
  ELSE IF t = "FLOAT64" THEN {F(1), NaN}
  ELSE {0, 1}

GroupSlots(t, isKey) == {Val(t, x) : x \in GroupValues(t, isKey)} \cup {Null(t)}

\* rows (A, 90), (B, 80), (A, 70)
GroupByExamples ==
  {<<[name |-> NameK, typ |-> "STRING", refs |-> 1,
      data |-> <<Val("STRING", <<65>>), Val("STRING", <<66>>), Val("STRING", <<65>>)>>],
     [name |-> NameV, typ |-> "INT64", refs |-> 1,
      data |-> <<Val("INT64", 90), Val("INT64", 80), Val("INT64", 70)>>]>>}

GroupByBatches(sch) ==
  {<<[name |-> NameK, typ |-> sch[1], data |-> kv[1], refs |-> 1],
     [name |-> NameV, typ |-> sch[2], data |-> kv[2], refs |-> 1]>> :
     kv \in UNION {[1..r -> GroupSlots(sch[1], TRUE)] \X [1..r -> GroupSlots(sch[2], FALSE)] :
                   r \in 0..MaxRows}}

KeyColumnLists ==
  {<<>>, <<NameK>>, <<NameZ>>, <<NameV>>, <<NameK, NameK>>, <<NameK, NameV>>}

AggregationMaps ==
  {<<>>}
  \cup {[c \in {NameV} |-> f] : f \in Aggregators}
  \cup {[c \in {NameZ} |-> "Sum"]}
  \cup {[c \in {NameK, NameV} |-> "Sum"]}

\* the calls: every aggregation map with the one key column, every key
\* column list without aggregations and with the sum of the value column
GroupByCalls ==
  ({<<NameK>>} \X AggregationMaps)
  \cup (KeyColumnLists \X {<<>>, [c \in {NameV} |-> "Sum"]})

\* the orders in which range can yield the elements of a set
Orders(S) == {q \in [1..Cardinality(S) -> S] : \A i, j \in DOMAIN q : q[i] = q[j] => i = j}

\* the number of entries of groupMap when the row loop completes
BucketCount(rec, keyColumns) ==
  IF \E i \in 1..Len(keyColumns) : FieldIndex(rec, keyColumns[i]) = 0 THEN 0
  ELSE Len(groupMapOf(rec, keyColumns).groupMap)

InitGroupBy ==
  /\ \/ \E sch \in GroupBySchemas : input \in GroupByBatches(sch)
     \/ input \in GroupByExamples
  /\ \E call \in GroupByCalls :
       args = [NoArgs EXCEPT !.keyColumns = call[1], !.aggregations = call[2]]
  /\ order = Ascending
  /\ op = "none"
  /\ indices = NoIndices
  /\ n = 0
  /\ res = OkNil
  /\ allocated = NoAllocation

DoGroupBy ==
  /\ op = "none"
  /\ \E p \in Perms(BucketCount(input, args.keyColumns)) :
       \E names \in Orders(DOMAIN args.aggregations) :
         res' = GroupBy(input, args.keyColumns, args.aggregations, p, names)
  /\ op' = "GroupBy"
  /\ UNCHANGED <<input, order, indices, n, args, allocated>>

\* GroupByResult.Release by the caller
DoReleaseGroupBy ==
  /\ op = "GroupBy"
  /\ op' = "none"
  /\ res' = OkNil
  /\ UNCHANGED <<input, order, indices, n, args, allocated>>

NextGroupBy ==
  \/ DoGroupBy
  \/ DoReleaseGroupBy

GroupBySpec == InitGroupBy /\ [][NextGroupBy]_vars

(* ------------------------------ C22 ----------------------------------- *)

GroupByDone == op = "GroupBy"

GroupByOk == GroupByDone /\ res.err = ""

\* the buckets of the call that has run
Buckets == groupMapOf(input, args.keyColumns).groupMap

KeyColumn(j) == input[FieldIndex(input, args.keyColumns[j])]

SameBucket(x, y) ==
  \E b \in 1..Len(Buckets) :
    /\ \E k \in 1..Len(Buckets[b].rows) : Buckets[b].rows[k] = x
    /\ \E k \in 1..Len(Buckets[b].rows) : Buckets[b].rows[k] = y

\* on every key column both rows are null, or both are non-null with
\* equal values
SameKeyTuple(x, y) ==
  \A j \in 1..Len(args.keyColumns) :
    LET col == KeyColumn(j)
    IN \/ IsNull(col.data, x) /\ IsNull(col.data, y)
       \/ /\ ~IsNull(col.data, x)
          /\ ~IsNull(col.data, y)
          /\ KeyEq(col.typ, Value(col.data, x), Value(col.data, y))

\* no key value is the string "NULL" and no key value is a NaN
PlainKeys ==
  \A j \in 1..Len(args.keyColumns) : \A x \in 0..(NumRows(input) - 1) :
    LET col == KeyColumn(j)
    IN IsNull(col.data, x)
       \/ /\ col.typ = "STRING" => Value(col.data, x) # NullToken
          /\ col.typ = "FLOAT64" => ~Value(col.data, x).nan

\* C22: after a successful GroupBy two different rows are in the same
\* bucket if and only if on every key column both are null or both are
\* non-null with equal values: a null key never groups with a non-null
\* value and different key tuples never share a bucket.
C22_KeyEquality ==
  GroupByOk =>
    \A x, y \in 0..(NumRows(input) - 1) :
      x # y => (SameBucket(x, y) <=> SameKeyTuple(x, y))

\* the same for batches without the string "NULL" and without NaN keys
C22_KeyEqualityPlainKeys ==
  (GroupByOk /\ PlainKeys) =>
    \A x, y \in 0..(NumRows(input) - 1) :
      x # y => (SameBucket(x, y) <=> SameKeyTuple(x, y))

\* rows with equal key tuples always share a bucket
C22_EqualTuplesShareBucket ==
  GroupByOk =>
    \A x, y \in 0..(NumRows(input) - 1) : SameKeyTuple(x, y) => SameBucket(x, y)

(* ------------------------------ C23 ----------------------------------- *)

\* the slot a key array holds for a bucket: the key of its first row
KeySlotOf(col, bucket) ==
  IF IsNull(col.data, bucket.rows[1]) THEN Null(col.typ)
  ELSE Val(col.typ, Value(col.data, bucket.rows[1]))

\* the float an aggregate array holds for a bucket
AggregateOf(name, bucket) ==
  convert(aggFunc(args.aggregations[name],
                  sliceRows(input[FieldIndex(input, name)], bucket.rows, 1, <<>>))).f

\* entry i of every key array and of every aggregate array belongs to
\* bucket q[i]
Aligned(q) ==
  /\ \A k \in DOMAIN res.val.Keys : \A i \in 1..Len(res.val.Keys[k].data) :
       i <= Len(q) =>
         res.val.Keys[k].data[i] = KeySlotOf(input[FieldIndex(input, k)], Buckets[q[i]])
  /\ \A v \in DOMAIN res.val.Aggregates : \A i \in 1..Len(res.val.Aggregates[v].data) :
       i <= Len(q) =>
         res.val.Aggregates[v].data[i] = Val("FLOAT64", AggregateOf(v, Buckets[q[i]]))

RowsPartitioned ==
  \A x \in 0..(NumRows(input) - 1) :
    Cardinality({b \in 1..Len(Buckets) :
                   \E k \in 1..Len(Buckets[b].rows) : Buckets[b].rows[k] = x}) = 1

ArraysHaveBucketLength ==
  /\ \A k \in DOMAIN res.val.Keys : Len(res.val.Keys[k].data) = Len(Buckets)
  /\ \A v \in DOMAIN res.val.Aggregates : Len(res.val.Aggregates[v].data) = Len(Buckets)

RepeatedKeyColumn ==
  \E i, j \in 1..Len(args.keyColumns) : i # j /\ args.keyColumns[i] = args.keyColumns[j]

\* C23: after a successful GroupBy, whatever the order in which the
\* buckets were enumerated, every row index is in exactly one bucket,
\* every array of Keys and of Aggregates has as many entries as there are
\* buckets, and entry i of every key array and of every aggregate array
\* belongs to the same bucket.
C23_ResultShape ==
  GroupByOk =>
    /\ RowsPartitioned
    /\ ArraysHaveBucketLength
    /\ \E q \in Perms(Len(Buckets)) : Aligned(q)

\* the same for calls whose key column names do not repeat
C23_ResultShapeWithoutRepeats ==
  (GroupByOk /\ ~RepeatedKeyColumn) =>
    /\ RowsPartitioned
    /\ ArraysHaveBucketLength
    /\ \E q \in Perms(Len(Buckets)) : Aligned(q)

\* a repeated name gets one entry per occurrence and bucket
C23_RepeatedKeyDoubles ==
  (GroupByOk /\ args.keyColumns = <<NameK, NameK>>) =>
    Len(res.val.Keys[NameK].data) = 2 * Len(Buckets)

(* ------------------------------ C24 ----------------------------------- *)

\* the sub-array the aggregator is owed for a bucket: one slot per row of
\* the bucket, the value column's slot at that row
WholeSlice(col, rowIndices) ==
  [typ |-> col.typ,
   data |-> [k \in 1..Len(rowIndices) |->
               IF IsNull(col.data, rowIndices[k]) THEN Null(col.typ)
               ELSE Val(col.typ, Value(col.data, rowIndices[k]))]]

RowsAscending(rowIndices) ==
  \A k \in 1..(Len(rowIndices) - 1) : rowIndices[k] < rowIndices[k + 1]

\* the aggregator's result on the whole slice of the bucket is an int64,
\* a float64 or a parseable string, and entry is its float value
IsAggregateOfWholeSlice(entry, name, bucket) ==
  LET r == aggFunc(args.aggregations[name],
                   WholeSlice(input[FieldIndex(input, name)], bucket.rows))
  IN /\ r.err = ""
     /\ ~r.isNil
     /\ \/ r.typ \in {"int64", "INT64"} /\ entry = Val("FLOAT64", ToFloat(r.val))
        \/ r.typ \in {"float64", "FLOAT64"} /\ entry = Val("FLOAT64", r.val)
        \/ r.typ = "STRING" /\ Sscanf(r.val).err = ""
                            /\ entry = Val("FLOAT64", Sscanf(r.val).f)

AggregatesOfWholeSlices ==
  /\ \A b \in 1..Len(Buckets) : RowsAscending(Buckets[b].rows)
  /\ \E q \in Perms(Len(Buckets)) :
       \A v \in DOMAIN res.val.Aggregates :
         /\ Len(res.val.Aggregates[v].data) = Len(Buckets)
         /\ \A i \in 1..Len(Buckets) :
              IsAggregateOfWholeSlice(res.val.Aggregates[v].data[i], v, Buckets[q[i]])

\* C24: after a successful GroupBy, for every bucket and every requested
\* (value column, aggregator), whatever the value column's type, the
\* bucket's entry in the aggregate column is the float value of the
\* aggregator's result on the sub-array that holds, in ascending row
\* order, the value column's slot (null or value) at every row of the
\* bucket.
C24_AggregationInput ==
  GroupByOk => AggregatesOfWholeSlices

\* the same for value columns of the types Int64, Float64, String and Bool
C24_AggregationInputArmTypes ==
  (GroupByOk /\ \A v \in DOMAIN args.aggregations :
                  /\ FieldIndex(input, v) # 0
                  /\ input[FieldIndex(input, v)].typ \in GroupTypes)
    => AggregatesOfWholeSlices

\* rows (A, 90), (B, 80), (A, 70) grouped by the first column with the
\* mean of the second give 80.0 for A and 80.0 for B
C24_Example ==
  (GroupByOk /\ input \in GroupByExamples /\ args.keyColumns = <<NameK>>
     /\ DOMAIN args.aggregations = {NameV} /\ args.aggregations[NameV] = "Mean")
    => /\ res.val.Aggregates[NameV].data = <<Val("FLOAT64", F(80)), Val("FLOAT64", F(80))>>
       /\ {res.val.Keys[NameK].data[i] : i \in 1..2}
            = {Val("STRING", <<65>>), Val("STRING", <<66>>)}

(* ------------------------------ C25 ----------------------------------- *)

MissingKeyColumn ==
  \E j \in 1..Len(args.keyColumns) : FieldIndex(input, args.keyColumns[j]) = 0

MissingAggregationColumn ==
  \E v \in DOMAIN args.aggregations : FieldIndex(input, v) = 0

UnsupportedKeyColumn ==
  \E j \in 1..Len(args.keyColumns) :
    /\ FieldIndex(input, args.keyColumns[j]) # 0
    /\ KeyColumn(j).typ \notin GroupTypes

\* C25: for every batch, also one with zero rows, GroupBy with a key
\* column name or an aggregation column name that is not a column of the
\* batch returns an error and no result (the 'column not found' error
\* unless a key column has an unsupported type), and GroupBy with a key
\* column of an unsupported type returns an error and no result, also
\* when every row is null in it or the batch is empty.
C25_ColumnLookup ==
  GroupByDone =>
    /\ (MissingKeyColumn \/ MissingAggregationColumn) =>
         /\ res.err # ""
         /\ res.isNil
         /\ ~UnsupportedKeyColumn => res.err = "column not found"
    /\ UnsupportedKeyColumn => (res.err # "" /\ res.isNil)

\* the same without the missing aggregation column on a batch with no rows
C25_ColumnLookupWithRows ==
  GroupByDone =>
    /\ (MissingKeyColumn \/ (MissingAggregationColumn /\ NumRows(input) > 0)) =>
         /\ res.err # ""
         /\ res.isNil
         /\ ~UnsupportedKeyColumn => res.err = "column not found"
    /\ UnsupportedKeyColumn => (res.err # "" /\ res.isNil)

\* an aggregation column that does not exist goes unnoticed on a batch
\* with no rows
C25_MissingAggregationOnEmptyBatch ==
  (GroupByDone /\ NumRows(input) = 0 /\ ~MissingKeyColumn /\ ~UnsupportedKeyColumn)
    => res.err = ""

(* ------------------------------ C29 ----------------------------------- *)

\* what the aggregator of an existing value column returns for a bucket
AggResult(name, bucket) ==
  aggFunc(args.aggregations[name],
          sliceRows(input[FieldIndex(input, name)], bucket.rows, 1, <<>>))

\* an int64, a float64 or a string that parses as a number
Convertible(r) ==
  /\ r.err = ""
  /\ ~r.isNil
  /\ \/ r.typ \in {"int64", "INT64", "float64", "FLOAT64"}
     \/ r.typ = "STRING" /\ Sscanf(r.val).err = ""

\* the bucket loop is reached
ReachesBuckets == ~MissingKeyColumn /\ ~UnsupportedKeyColumn

SomeResultNotConvertible ==
  /\ ReachesBuckets
  /\ LET buckets == Buckets
     IN \E b \in 1..Len(buckets) : \E v \in DOMAIN args.aggregations :
          FieldIndex(input, v) # 0 /\ ~Convertible(AggResult(v, buckets[b]))

\* C29: when for some bucket the aggregator returns an error, nil or a
\* result that is not an int64, a float64 or a string that parses as a
\* number, GroupBy returns an error and no GroupByResult; a GroupByResult
\* has no null aggregate entry and an entry for every bucket.
C29_AllOrNothing ==
  GroupByDone =>
    /\ SomeResultNotConvertible => (res.err # "" /\ res.isNil)
    /\ res.err # "" => res.isNil
    /\ res.err = "" =>
         \A v \in DOMAIN res.val.Aggregates :
           /\ Len(res.val.Aggregates[v].data) = Len(Buckets)
           /\ \A i \in 1..Len(res.val.Aggregates[v].data) :
                res.val.Aggregates[v].data[i].valid

\* Min over a bucket whose values are all null returns nil, and GroupBy
\* has returned an error
C29_Witness ==
  /\ GroupByDone
  /\ ReachesBuckets
  /\ DOMAIN args.aggregations = {NameV}
  /\ args.aggregations[NameV] = "Min"
  /\ \E b \in 1..Len(Buckets) :
       AggResult(NameV, Buckets[b]).isNil /\ AggResult(NameV, Buckets[b]).err = ""
  /\ res.err = "unsupported aggregation result type"

\* a bool result, a uint64 result and a string that does not parse
C29_WitnessOtherTypes ==
  /\ GroupByDone
  /\ ReachesBuckets
  /\ DOMAIN args.aggregations = {NameV}
  /\ \E b \in 1..Len(Buckets) :
       LET r == AggResult(NameV, Buckets[b])
       IN r.err = "" /\ ~r.isNil /\ r.typ \in {"BOOL", "uint64"}
  /\ res.err = "unsupported aggregation result type"

C29_WitnessString ==
  /\ GroupByDone
  /\ ReachesBuckets
  /\ DOMAIN args.aggregations = {NameV}
  /\ \E b \in 1..Len(Buckets) :
       LET r == AggResult(NameV, Buckets[b])
       IN r.err = "" /\ ~r.isNil /\ r.typ = "STRING" /\ Sscanf(r.val).err # ""
  /\ res.err = "cannot convert string to float64"

\* a string that parses: the call succeeds with its value
C29_WitnessParsed ==
  /\ GroupByOk
  /\ DOMAIN args.aggregations = {NameV}
  /\ args.aggregations[NameV] = "First"
  /\ input[FieldIndex(input, NameV)].typ = "STRING"
  /\ Len(Buckets) = 2
  /\ \A i \in 1..2 : res.val.Aggregates[NameV].data[i] = Val("FLOAT64", F(1))

(* ---------------------- GroupByResult.ToRecord ------------------------ *)

\* "_agg"
AggSuffix == <<95, 97, 103, 103>>

\* "v_agg"
NameVAgg == NameV \o AggSuffix

\* ToRecord up to the call of array.NewRecord: the fields of the schema
\* paired with the arrays handed over, and the row count.  keyNames and
\* aggNames are the orders in which range yields the keys of gr.Keys and
\* of gr.Aggregates.
ToRecord(gr, keyNames, aggNames) ==
  LET fields ==
        [i \in 1..Len(keyNames) |-> [name |-> keyNames[i], typ |-> gr.Keys[keyNames[i]].typ]]
        \o [i \in 1..Len(aggNames) |->
              [name |-> aggNames[i] \o AggSuffix, typ |-> gr.Aggregates[aggNames[i]].typ]]
      \* field.Name[:len(field.Name)-4]
      cut(name) == SubSeq(name, 1, Len(name) - 4)
      found == SelectSeq(fields, LAMBDA f :
                 f.name \in DOMAIN gr.Keys \/ cut(f.name) \in DOMAIN gr.Aggregates)
      arrays == [i \in 1..Len(found) |->
                   IF found[i].name \in DOMAIN gr.Keys THEN gr.Keys[found[i].name]
                   ELSE gr.Aggregates[cut(found[i].name)]]
      numRows == IF Len(arrays) > 0 THEN Len(arrays[1].data) ELSE 0
  IN [err |-> "", typ |-> "RECORD", isNil |-> FALSE, val |-> numRows,
      arr |-> [i \in 1..Len(fields) |->
                 [name |-> fields[i].name, typ |-> fields[i].typ,
                  array |-> IF i <= Len(arrays) THEN arrays[i] ELSE <<>>]]]

\* a GroupByResult: key arrays of one type under some of the names k and
\* v_agg, Float64 aggregate arrays under some of the names v and k, all
\* of r entries
InitToRecord ==
  /\ \E r \in 0..MaxRows : \E t \in {"STRING", "FLOAT64"} :
       \E kn \in SUBSET {NameK, NameVAgg} : \E an \in SUBSET {NameV, NameK} :
         \E keys \in [kn -> [1..r -> GroupSlots(t, TRUE)]] :
           \E aggs \in [an -> [1..r -> {Val("FLOAT64", F(0)), Val("FLOAT64", F(1))}]] :
             input = [Keys |-> [k \in kn |-> [typ |-> t, data |-> keys[k]]],
                      Aggregates |-> [v \in an |-> [typ |-> "FLOAT64", data |-> aggs[v]]]]
  /\ args = NoArgs
  /\ order = Ascending
  /\ op = "none"
  /\ indices = NoIndices
  /\ n = 0
  /\ res = OkNil
  /\ allocated = NoAllocation

DoToRecord ==
  /\ op = "none"
  /\ \E keyNames \in Orders(DOMAIN input.Keys) :
       \E aggNames \in Orders(DOMAIN input.Aggregates) :
         res' = ToRecord(input, keyNames, aggNames)
  /\ op' = "ToRecord"
  /\ UNCHANGED <<input, order, indices, n, args, allocated>>

NextToRecord ==
  \/ DoToRecord
  \/ DoReleaseRecord

ToRecordSpec == InitToRecord /\ [][NextToRecord]_vars

(* ------------------------------ C30 ----------------------------------- *)

ToRecordDone == op = "ToRecord"

\* the columns the result is owed, keys in the order keyNames and
\* aggregates in the order aggNames
OwedColumns(gr, keyNames, aggNames) ==
  [i \in 1..Len(keyNames) |->
     [name |-> keyNames[i], typ |-> gr.Keys[keyNames[i]].typ,
      array |-> gr.Keys[keyNames[i]]]]
  \o [i \in 1..Len(aggNames) |->
        [name |-> aggNames[i] \o AggSuffix, typ |-> gr.Aggregates[aggNames[i]].typ,
         array |-> gr.Aggregates[aggNames[i]]]]

ColumnsAsOwed ==
  /\ Len(res.arr) = Cardinality(DOMAIN input.Keys) + Cardinality(DOMAIN input.Aggregates)
  /\ \A c \in 1..Len(res.arr) : Len(res.arr[c].array.data) = res.val
  /\ \E keyNames \in Orders(DOMAIN input.Keys) :
       \E aggNames \in Orders(DOMAIN input.Aggregates) :
         res.arr = OwedColumns(input, keyNames, aggNames)

\* a key column has the name of an aggregate's field
NameClash ==
  \E k \in DOMAIN input.Keys : \E v \in DOMAIN input.Aggregates : k = v \o AggSuffix

\* C30: the record ToRecord builds has one column per entry of Keys and
\* of Aggregates, every column as long as the row count, the column of
\* key name k holding Keys[k] and the column named v + "_agg" holding
\* Aggregates[v], whatever the names, also when a key column's name ends
\* in "_agg".
C30_ToRecord ==
  ToRecordDone => ColumnsAsOwed

\* the same when no key column has the name of an aggregate's field
C30_ToRecordWithoutClash ==
  (ToRecordDone /\ ~NameClash) => ColumnsAsOwed

\* with the clash both columns of that name hold the key array
C30_ClashTakesKeyArray ==
  (ToRecordDone /\ NameClash) =>
    \A c \in 1..Len(res.arr) :
      res.arr[c].name = NameVAgg => res.arr[c].array = input.Keys[NameVAgg]

====
